---- MODULE Spec2Model ----
(***************************************************************************)
(* HallucinationLens: the response watcher of the content script           *)
(* (src/content.js) with the helpers it uses from the utilities            *)
(* (src/unnamed/part_001).                                                 *)
(*                                                                         *)
(* One JavaScript event loop: every action below is one task (a message    *)
(* handler, a timer callback, a mutation callback, the continuation of an  *)
(* await) run to its next suspension point.  The suspension points are the *)
(* settings-store calls (loadSetting / saveSetting) and the evidence       *)
(* lookup (searchDuckDuckGo) of processResponseElement.                    *)
(*                                                                         *)
(* Response elements are numbered in document order; the page only appends *)
(* them.  The overlay fragments the presenter inserts are not themselves   *)
(* response elements.                                                      *)
(***************************************************************************)
EXTENDS Integers, Sequences, FiniteSets, TLC

\* ------------------------------------------------------------------ bounds
\* response elements the page renders
MaxElems == 2
\* setEnabled calls suspended at saveSetting at the same time
MaxPendingSet == 1
\* clock ticks in the debounce delay of 1000 ms
DebounceTicks == 2
\* words in a text drawn from the vocabulary
MaxWords == 3
\* search results handed to the scorer
MaxResults == 2
\* keywords handed to the scorer
MaxScoreKeywords == 2
\* keywords handed to the heuristic evidence source
MaxMockKeywords == 3
\* related topics in a response of the knowledge API
MaxTopics == 2
\* pages found by the encyclopedia search
MaxPages == 2
\* selectors in the lists of a discovery
MaxSelectors == 2
\* elements of the page a discovery queries
MaxPageElems == 2
\* records in a batch of mutations, and nodes they add
MaxNodes == 2

\* ------------------------------------------------------- program constants
\* processResponseElement: text.length < 50 -> return
MinTextLen == 50
\* findResponseElements: textContent.trim().length > 50
DiscoverMinLen == 50
\* findElementsWithFallback: textContent.trim().length > 100
FallbackMinLen == 100
\* findElementsWithFallback: uniqueElements.slice(-5)
FallbackCap == 5
\* extractKeywords: word.length >= 2
MinWordLen == 2
\* extractKeywords: .slice(0, 5)
MaxKeywords == 5
\* analyzeKeywords: /.{4,}/
LongWordLen == 4
\* analyzeKeywords: /^.{1,2}$/
ShortWordLen == 2
\* analyzeKeywords: avgLength < 3, avgLength >= 3
AvgLengthMin == 3
\* analyzeKeywords: keywords.length >= 2
KeywordCountMin == 2
\* generateMockSearchResults: avgKeywordLength > 4
ComplexAvgLen == 4
\* generateMockSearchResults: keywords.length >= 3
ComplexMinCount == 3
\* generateMockSearchResults: k.length <= 1
GuardLen == 1
\* searchDuckDuckGo: data.RelatedTopics.slice(0, 2)
TopicsCap == 2
\* searchDuckDuckGo, live variant: results.slice(0, 2)
ResultsCap == 2
\* searchWikipedia: Math.min(2, searchData.pages.length)
PagesCap == 2

VARIABLES
  platform,     \* this.platform: a platform tag, or "none" for null
  stored,       \* chrome.storage.local "enabled", read with default true
  initPc,       \* init(): "loading" at await loadSetting, else "done"
  isEnabled,    \* this.isEnabled
  observer,     \* this.observer: "null", "connected" or "disconnected"
  pendingSet,   \* setEnabled calls suspended at await saveSetting, oldest first
  existingTimer,\* the setTimeout(2000) of init is scheduled
  interval,     \* number of running setInterval(5000) timers
  tornDown,     \* history: cleanup() has run (beforeunload)
  active,       \* MutationObservers that are observing document.body
  timers,       \* remaining ticks of the scheduled debounce timeouts
  dom,          \* the response elements of the page, in document order
  processed,    \* this.processedElements
  inflight,     \* elements whose processResponseElement awaits its lookup
  overlays,     \* elements that have a rendered overlay
  started,      \* history: pipeline runs started per element (capped at 2)
  failed,       \* history: elements whose run ended in the catch block
  dirty,        \* history: the page changed since the last pass
  rendered,     \* history: elements createOverlay has rendered an overlay for
  lastPass,     \* history: elements the most recent pass submitted
  lastNew,      \* history: the unprocessed elements that pass could discover
  lastClean,    \* history: the page was unchanged when that pass ran
  sinceNotify,  \* history: ticks since the last debounced call (capped)
  calls,        \* history: debounced calls the pending timeout stands for (capped)
  fires,        \* history: debounced passes run since the last debounced call
  pc,           \* utility function under test: "none", "call" or "return"
  arg,          \* its argument
  ret           \* its return value

vars == <<platform, stored, initPc, isEnabled, observer, pendingSet,
          existingTimer, interval, tornDown, active, timers, dom, processed, inflight,
          overlays, started, failed, dirty, rendered, lastPass, lastNew,
          lastClean, sinceNotify, calls, fires, pc, arg, ret>>

lifeVars == <<platform, stored, initPc, isEnabled, observer, pendingSet,
              existingTimer, interval, tornDown, active>>
elemVars == <<processed, inflight, started, failed, dirty, lastPass,
              lastNew, lastClean>>
debVars == <<timers, sinceNotify, calls, fires>>
utilVars == <<pc, arg, ret>>

Elems == 1..MaxElems

Min(a, b) == IF a < b THEN a ELSE b
Max(a, b) == IF a > b THEN a ELSE b
SetMax(S) == CHOOSE x \in S : \A y \in S : y <= x

\* ------------------------------------------------------------ the page
\* What the watcher can observe of one response element:
\*   trimLen  textContent.trim().length
\*   extLen   extractTextContent(el).length (pre/code blocks removed)
\*   kw       extractKeywords(text) is not empty
\*   psel     some selector of the platform's list matches it
\*   gsel     the generic strategy accepts it (a fallback selector matches,
\*            no input/textarea inside, not isUserInput)
\*   fault    "extract": extracting throws; "overlay": createOverlay throws
Element(t, x, k, p, g, f) ==
  [trimLen |-> t, extLen |-> x, kw |-> k, psel |-> p, gsel |-> g, fault |-> f]

Profiles ==
  { Element(FallbackMinLen + 1, FallbackMinLen + 1, TRUE, TRUE, TRUE, "none"),
    Element(FallbackMinLen + 1, MinTextLen - 1, TRUE, TRUE, TRUE, "none"),
    Element(FallbackMinLen + 1, FallbackMinLen + 1, TRUE, TRUE, TRUE, "overlay"),
    Element(FallbackMinLen + 1, FallbackMinLen + 1, TRUE, TRUE, TRUE, "extract") }

\* ------------------------------------------------------------ discovery
\* querySelectorAll results: the elements in document order
AllElements == [i \in 1..Len(dom) |-> i]

LastN(s, n) == IF Len(s) <= n THEN s ELSE SubSeq(s, Len(s) - n + 1, Len(s))

findElementsWithFallback ==
  LET Keep(i) == dom[i].gsel /\ dom[i].trimLen > FallbackMinLen
  IN  LastN(SelectSeq(AllElements, Keep), FallbackCap)

findResponseElements ==
  LET Keep(i) == /\ platform # "none"
                 /\ dom[i].psel
                 /\ dom[i].trimLen > DiscoverMinLen
      filteredElements == SelectSeq(AllElements, Keep)
  IN  IF filteredElements = <<>> /\ findElementsWithFallback # <<>>
      THEN findElementsWithFallback
      ELSE filteredElements

\* the elements a pass finds, and those of them it has not processed yet
Discovered == {findResponseElements[i] : i \in 1..Len(findResponseElements)}
NewCandidates == Discovered \ processed

\* ------------------------------------------------- processResponseElement
\* the element state one pass works on; submitted collects the elements
\* the pass started a pipeline run for
State == [processed |-> processed, inflight |-> inflight,
          started |-> started, failed |-> failed, submitted |-> {}]

\* this.processedElements.add(element)
MarkProcessedLate(ps, e) == ps
MarkProcessed(ps, e) == ps \cup {e}

\* the catch block: logs, and leaves the element in processedElements
OnErrorRetry(ps, e) == ps \ {e}
OnError(ps, e) == ps

\* an early return that lets the element be submitted again
ReturnedEarlyRetry(ps, e) == ps \ {e}

\* return on a short text or on no keyword: processedElements keeps the
\* element added before the try
ReturnedEarly(ps, e) == ps

\* the run reaches the lookup: nothing throws, the text is long enough and
\* yields a keyword
ReachesLookup(e) ==
  /\ dom[e].fault # "extract"
  /\ ~(dom[e].extLen < MinTextLen)
  /\ dom[e].kw

\* one call past its guard, up to await searchDuckDuckGo
submitElement(st, e) ==
  LET s1 == [st EXCEPT !.processed = MarkProcessed(@, e),
                       !.started[e] = Min(@ + 1, 2),
                       !.submitted = @ \cup {e}]
  IN  IF dom[e].fault = "extract"
      THEN [s1 EXCEPT !.failed = @ \cup {e},
                      !.processed = OnError(@, e)]
      ELSE IF dom[e].extLen < MinTextLen \/ ~dom[e].kw
      THEN [s1 EXCEPT !.processed = ReturnedEarly(@, e)]
      ELSE [s1 EXCEPT !.inflight = @ \cup {e}]

processResponseElement(st, e) ==
  IF e \in st.processed THEN st ELSE submitElement(st, e)

\* forEach that a throwing callback would abort
RECURSIVE ForEachAbort(_, _)
ForEachAbort(st, els) ==
  IF els = <<>> THEN st
  ELSE IF Head(els) \notin st.processed /\ dom[Head(els)].fault = "extract"
       THEN [st EXCEPT !.processed = @ \cup {Head(els)},
                       !.started[Head(els)] = Min(@ + 1, 2),
                       !.submitted = @ \cup {Head(els)},
                       !.failed = @ \cup {Head(els)}]
       ELSE ForEachAbort(processResponseElement(st, Head(els)), Tail(els))

\* elements.forEach((element) => this.processResponseElement(element))
RECURSIVE ForEach(_, _)
ForEach(st, els) ==
  IF els = <<>> THEN st
  ELSE ForEach(processResponseElement(st, Head(els)), Tail(els))

processExistingContent(st) == ForEach(st, findResponseElements)

RECURSIVE ResubmitAll(_, _)
ResubmitAll(st, els) ==
  IF els = <<>> THEN st
  ELSE ResubmitAll(submitElement(st, Head(els)), Tail(els))

\* a pass that bypasses processedElements
processNewContentAll(st) == ResubmitAll(st, findResponseElements)

processNewContent(st) ==
  LET responseElements == findResponseElements
      newElements == SelectSeq(responseElements,
                               LAMBDA el : el \notin st.processed)
  IN  ForEach(st, newElements)

\* a periodic pass that looks at the most recent response only
intervalCallbackLastOnly(st) ==
  ForEach(st, LastN(SelectSeq(findResponseElements,
                              LAMBDA el : el \notin st.processed), 1))

\* setInterval(() => { this.processNewContent(); }, 5000)
intervalCallback(st) == processNewContent(st)

\* debounce(this.processNewContent.bind(this), 1000): what `later` runs
debouncedProcessNewContent(st) == processNewContent(st)

\* the pass writes its result back
Commit(st) ==
  /\ processed' = st.processed
  /\ inflight' = st.inflight
  /\ started' = st.started
  /\ failed' = st.failed
  /\ lastPass' = st.submitted
  /\ lastNew' = NewCandidates
  /\ lastClean' = ~dirty
  /\ dirty' = FALSE

\* ------------------------------------------------------------- debounce
\* clearTimeout(timeout): timeout holds the handle of the latest setTimeout
ClearTimeout(ts) == IF ts = {} THEN ts ELSE ts \ {SetMax(ts)}

\* a debounce that forgets clearTimeout
DebouncedCallNoClear(ts) == ts \cup {DebounceTicks}

\* executedFunction: clearTimeout(timeout); timeout = setTimeout(later, wait)
DebouncedCall(ts) == ClearTimeout(ts) \cup {DebounceTicks}

\* the MutationObserver callback for a batch that added an element node
Notify ==
  IF observer = "connected"
  THEN /\ timers' = DebouncedCall(timers)
       /\ sinceNotify' = 0
       /\ calls' = IF timers = {} THEN 1 ELSE Min(calls + 1, 2)
       /\ fires' = 0
  ELSE UNCHANGED debVars

\* startObserving: disconnect the old observer, observe with a new one
startObserving(obs) == "connected"

\* a startObserving that leaves the old observer observing
observeStacking(n, obs) == Min(n + 1, 2)

\* the observers observing after startObserving: this.observer.disconnect()
\* if there is one, then a new MutationObserver observes
observe(n, obs) == (IF obs = "connected" THEN n - 1 ELSE n) + 1

\* the observers observing after this.observer.disconnect(), if there is one
unobserve(n, obs) == IF obs = "connected" THEN n - 1 ELSE n

\* if (this.observer) this.observer.disconnect()
disconnect(obs) == IF obs = "null" THEN "null" ELSE "disconnected"

\* ---------------------------------------------------------------- Init
\* the state after the constructor: init() has run up to await loadSetting,
\* or has returned on an unsupported platform
Init ==
  /\ platform \in {"chatgpt", "none"}
  /\ stored \in BOOLEAN
  /\ initPc = IF platform = "none" THEN "done" ELSE "loading"
  /\ isEnabled = TRUE
  /\ observer = "null"
  /\ pendingSet = <<>>
  /\ existingTimer = FALSE
  /\ interval = 0
  /\ tornDown = FALSE
  /\ active = 0
  /\ timers = {}
  /\ dom = <<>>
  /\ processed = {}
  /\ inflight = {}
  /\ overlays = {}
  /\ started = [e \in Elems |-> 0]
  /\ failed = {}
  /\ dirty = FALSE
  /\ rendered = {}
  /\ lastPass = {}
  /\ lastNew = {}
  /\ lastClean = FALSE
  /\ sinceNotify = 0
  /\ calls = 0
  /\ fires = 0
  /\ pc = "none"
  /\ arg = <<>>
  /\ ret = <<>>

\* ------------------------------------------------------------- actions
\* init(), from the resolution of loadSetting to its end
InitResume ==
  /\ UNCHANGED utilVars
  /\ initPc = "loading"
  /\ initPc' = "done"
  /\ isEnabled' = stored
  /\ IF stored
     THEN /\ observer' = startObserving(observer)
          /\ active' = observe(active, observer)
          /\ existingTimer' = TRUE
          /\ interval' = interval + 1
     ELSE UNCHANGED <<observer, active, existingTimer, interval>>
  /\ UNCHANGED <<platform, stored, pendingSet, tornDown, dom, overlays,
                 rendered, elemVars, debVars>>

\* the setTimeout(2000) callback of init
ExistingTimerFire ==
  /\ UNCHANGED utilVars
  /\ existingTimer
  /\ existingTimer' = FALSE
  /\ Commit(processExistingContent(State))
  /\ UNCHANGED <<platform, stored, initPc, isEnabled, observer, pendingSet,
                 interval, tornDown, active, dom, overlays, rendered, debVars>>

\* one tick of the setInterval(5000) of init
IntervalTick ==
  /\ UNCHANGED utilVars
  /\ interval > 0
  /\ Commit(intervalCallback(State))
  /\ UNCHANGED <<lifeVars, dom, overlays, rendered, debVars>>

\* the timeout of debounce expires and runs `later`
DebounceFire ==
  /\ UNCHANGED utilVars
  /\ 0 \in timers
  /\ timers' = timers \ {0}
  /\ fires' = Min(fires + 1, 2)
  /\ calls' = 0
  /\ Commit(debouncedProcessNewContent(State))
  /\ UNCHANGED <<lifeVars, dom, overlays, rendered, sinceNotify>>

\* time passes while a debounce timeout is running
Tick ==
  /\ UNCHANGED utilVars
  /\ \E r \in timers : r > 0
  /\ timers' = {Max(r - 1, 0) : r \in timers}
  /\ sinceNotify' = Min(sinceNotify + 1, DebounceTicks)
  /\ UNCHANGED <<lifeVars, dom, overlays, rendered, elemVars, calls, fires>>

\* the page renders a new response element
AddElement(p) ==
  /\ UNCHANGED utilVars
  /\ Len(dom) < MaxElems
  /\ dom' = Append(dom, p)
  /\ dirty' = TRUE
  /\ Notify
  /\ UNCHANGED <<lifeVars, overlays, rendered, processed, inflight, started,
                 failed, lastPass, lastNew, lastClean>>

\* the page adds an element node that is no response element
OtherElementAdded ==
  /\ UNCHANGED utilVars
  /\ observer = "connected"
  /\ Notify
  /\ UNCHANGED <<lifeVars, dom, overlays, rendered, elemVars>>

\* a delivery that tests this.isEnabled after the await
DeliversIfEnabled(enabled) == enabled

\* after await searchDuckDuckGo the run goes on to calculateTrustScore and
\* createOverlay whatever this.isEnabled is by then
Delivers(enabled) == TRUE

\* lookups served one at a time, in the order they were started
ResolvableInOrder(e) == e \in inflight /\ \A f \in inflight : e <= f

\* each run awaits the promise of its own searchDuckDuckGo call, and the
\* forEach of a pass awaits none of them
Resolvable(e) == e \in inflight

\* processResponseElement from the resolution of the lookup to its end:
\* calculateTrustScore, createOverlay (which inserts an element node)
LookupResolve(e) ==
  /\ UNCHANGED utilVars
  /\ Resolvable(e)
  /\ inflight' = inflight \ {e}
  /\ IF ~Delivers(isEnabled)
     THEN UNCHANGED <<overlays, rendered, debVars, failed, processed>>
     ELSE IF dom[e].fault = "overlay"
     THEN /\ failed' = failed \cup {e}
          /\ processed' = OnError(processed, e)
          /\ UNCHANGED <<overlays, rendered, debVars>>
     ELSE /\ overlays' = overlays \cup {e}
          /\ rendered' = rendered \cup {e}
          /\ Notify
          /\ UNCHANGED <<failed, processed>>
  /\ UNCHANGED <<lifeVars, dom, started, dirty, lastPass, lastNew, lastClean>>

\* the onMessage listener for {action: "toggle"}: setEnabled up to its await
ToggleMessage(enabled) ==
  /\ UNCHANGED utilVars
  /\ Len(pendingSet) < MaxPendingSet
  /\ isEnabled' = enabled
  /\ pendingSet' = Append(pendingSet, enabled)
  /\ UNCHANGED <<platform, stored, initPc, observer, existingTimer, interval,
                 tornDown, active, dom, overlays, rendered, elemVars, debVars>>

\* a teardown that starts over with an empty set
StartedOver(ps) == {}

\* the disable branch of setEnabled and cleanup() disconnect the observer and
\* remove the overlays; neither touches this.processedElements
Untouched(ps) == ps

\* setEnabled from the resolution of saveSetting to its end
SetEnabledResume ==
  /\ UNCHANGED utilVars
  /\ pendingSet # <<>>
  /\ pendingSet' = Tail(pendingSet)
  /\ stored' = Head(pendingSet)
  /\ IF Head(pendingSet)
     THEN /\ observer' = startObserving(observer)
          /\ active' = observe(active, observer)
          /\ Commit(processExistingContent(State))
          /\ UNCHANGED overlays
     ELSE /\ observer' = disconnect(observer)
          /\ active' = unobserve(active, observer)
          /\ overlays' = {}
          /\ processed' = Untouched(processed)
          /\ UNCHANGED <<inflight, started, failed, dirty, lastPass, lastNew,
                         lastClean>>
  /\ UNCHANGED <<platform, initPc, isEnabled, existingTimer, interval,
                 tornDown, dom, rendered, debVars>>

\* cleanup(), run by the beforeunload listener
Cleanup ==
  /\ UNCHANGED utilVars
  /\ tornDown' = TRUE
  /\ observer' = disconnect(observer)
  /\ active' = unobserve(active, observer)
  /\ overlays' = {}
  /\ processed' = Untouched(processed)
  /\ UNCHANGED <<platform, stored, initPc, isEnabled, pendingSet,
                 existingTimer, interval, dom, rendered, inflight, started,
                 failed, dirty, lastPass, lastNew, lastClean, debVars>>

Next ==
  \/ InitResume
  \/ ExistingTimerFire
  \/ IntervalTick
  \/ DebounceFire
  \/ Tick
  \/ \E p \in Profiles : AddElement(p)
  \/ OtherElementAdded
  \/ \E e \in Elems : LookupResolve(e)
  \/ \E b \in BOOLEAN : ToggleMessage(b)
  \/ SetEnabledResume

Spec == Init /\ [][Next]_vars

\* the same watcher with the beforeunload listener, on a supported page
\* whose stored setting is on
UnloadInit == Init /\ platform = "chatgpt" /\ stored

\* the response elements of the page that unloads: complete ones, and ones
\* whose overlay cannot be created
UnloadProfiles ==
  { Element(FallbackMinLen + 1, FallbackMinLen + 1, TRUE, TRUE, TRUE, "none"),
    Element(FallbackMinLen + 1, FallbackMinLen + 1, TRUE, TRUE, TRUE,
            "overlay") }

NextUnload ==
  \/ InitResume
  \/ ExistingTimerFire
  \/ IntervalTick
  \/ DebounceFire
  \/ Tick
  \/ \E p \in UnloadProfiles : AddElement(p)
  \/ OtherElementAdded
  \/ \E e \in Elems : LookupResolve(e)
  \/ \E b \in BOOLEAN : ToggleMessage(b)
  \/ SetEnabledResume
  \/ Cleanup

UnloadSpec == UnloadInit /\ [][NextUnload]_vars

\* ------------------------------------------------------- extractKeywords
\* A string is a sequence of characters.  A character is a one-character
\* string; a Hangul syllable is written by its code point, "U+ADF8".
UpperCase ==
  <<"A", "B", "C", "D", "E", "F", "G", "H", "I", "J", "K", "L", "M",
    "N", "O", "P", "Q", "R", "S", "T", "U", "V", "W", "X", "Y", "Z">>

LowerCase ==
  <<"a", "b", "c", "d", "e", "f", "g", "h", "i", "j", "k", "l", "m",
    "n", "o", "p", "q", "r", "s", "t", "u", "v", "w", "x", "y", "z">>

Digits == {"0", "1", "2", "3", "4", "5", "6", "7", "8", "9"}

\* \s, as far as the model's texts use it
WhiteSpace == {" ", "\n"}

\* the syllables of the range 가-힣 that the stop words are written with
Hangul ==
  {"U+AC00", "U+AC83", "U+AC8C", "U+ACE0", "U+ACFC", "U+ADF8", "U+B098",
   "U+B0D0", "U+B294", "U+B2C8", "U+B2E4", "U+B3C4", "U+B418", "U+B41C",
   "U+B420", "U+B530", "U+B54C", "U+B610", "U+B77C", "U+B798", "U+B7EC",
   "U+B85C", "U+B97C", "U+B9AC", "U+B9CC", "U+BA74", "U+BB38", "U+C11C",
   "U+C218", "U+C2B5", "U+C5C6", "U+C5D0", "U+C640", "U+C65C", "U+C73C",
   "U+C740", "U+C744", "U+C774", "U+C784", "U+C785", "U+C788", "U+C800",
   "U+C9C0", "U+D558", "U+D55C", "U+D568"}

IsUpper(c) == \E k \in 1..Len(UpperCase) : UpperCase[k] = c
IsLower(c) == \E k \in 1..Len(LowerCase) : LowerCase[k] = c

\* \w
IsWordChar(c) == IsUpper(c) \/ IsLower(c) \/ c \in Digits \/ c = "_"

toLowerCase(str) ==
  [i \in 1..Len(str) |->
     IF IsUpper(str[i])
     THEN LowerCase[CHOOSE k \in 1..Len(UpperCase) : UpperCase[k] = str[i]]
     ELSE str[i]]

\* .replace(/[^\w\s가-힣]/g, " ")
replaceSpecial(str) ==
  [i \in 1..Len(str) |->
     IF IsWordChar(str[i]) \/ str[i] \in WhiteSpace \/ str[i] \in Hangul
     THEN str[i]
     ELSE " "]

\* .replace(/\s+/g, " ")
RECURSIVE replaceSpaces(_, _)
replaceSpaces(str, inRun) ==
  IF str = <<>> THEN <<>>
  ELSE IF Head(str) \in WhiteSpace
       THEN (IF inRun THEN <<>> ELSE <<" ">>) \o replaceSpaces(Tail(str), TRUE)
       ELSE <<Head(str)>> \o replaceSpaces(Tail(str), FALSE)

\* .trim()
RECURSIVE trim(_)
trim(str) ==
  IF str = <<>> THEN str
  ELSE IF Head(str) \in WhiteSpace THEN trim(Tail(str))
  ELSE IF str[Len(str)] \in WhiteSpace THEN trim(SubSeq(str, 1, Len(str) - 1))
  ELSE str

\* .split(" "); the empty string gives one empty word
RECURSIVE split(_)
split(str) ==
  IF \A i \in 1..Len(str) : str[i] # " " THEN <<str>>
  ELSE LET i == CHOOSE j \in 1..Len(str) :
                  str[j] = " " /\ \A k \in 1..(j - 1) : str[k] # " "
       IN  <<SubSeq(str, 1, i - 1)>> \o split(SubSeq(str, i + 1, Len(str)))

\* the stop words, as listed
stopWords ==
  {<<"t", "h", "e">>, <<"a">>, <<"a", "n">>, <<"a", "n", "d">>,
   <<"o", "r">>, <<"b", "u", "t">>, <<"i", "n">>, <<"o", "n">>,
   <<"a", "t">>, <<"t", "o">>, <<"f", "o", "r">>, <<"o", "f">>,
   <<"w", "i", "t", "h">>, <<"b", "y">>, <<"i", "s">>, <<"a", "r", "e">>,
   <<"w", "a", "s">>, <<"w", "e", "r", "e">>, <<"b", "e">>,
   <<"b", "e", "e", "n">>, <<"h", "a", "v", "e">>, <<"h", "a", "s">>,
   <<"h", "a", "d">>, <<"d", "o">>, <<"d", "o", "e", "s">>,
   <<"d", "i", "d">>, <<"w", "i", "l", "l">>, <<"w", "o", "u", "l", "d">>,
   <<"c", "o", "u", "l", "d">>, <<"s", "h", "o", "u", "l", "d">>,
   <<"m", "a", "y">>, <<"m", "i", "g", "h", "t">>, <<"c", "a", "n">>,
   <<"t", "h", "i", "s">>, <<"t", "h", "a", "t">>,
   <<"t", "h", "e", "s", "e">>, <<"t", "h", "o", "s", "e">>, <<"U+ADF8">>,
   <<"U+C774">>, <<"U+C800">>, <<"U+AC83">>, <<"U+C218">>, <<"U+C788">>,
   <<"U+C5C6">>, <<"U+D558">>, <<"U+B418">>, <<"U+B41C">>, <<"U+B420">>,
   <<"U+D568">>, <<"U+C784">>, <<"U+C785", "U+B2C8", "U+B2E4">>,
   <<"U+C2B5", "U+B2C8", "U+B2E4">>, <<"U+C5D0", "U+C11C">>,
   <<"U+C5D0", "U+AC8C">>, <<"U+C5D0">>, <<"U+B97C">>, <<"U+C744">>,
   <<"U+AC00">>, <<"U+C740">>, <<"U+B294">>, <<"U+C73C", "U+B85C">>,
   <<"U+B85C">>, <<"U+C640">>, <<"U+ACFC">>, <<"U+B3C4">>, <<"U+B9CC">>,
   <<"U+ADF8", "U+B9AC", "U+ACE0">>, <<"U+B610", "U+D55C">>,
   <<"U+D558", "U+C9C0", "U+B9CC">>, <<"U+ADF8", "U+B7EC", "U+B098">>,
   <<"U+B530", "U+B77C", "U+C11C">>, <<"U+ADF8", "U+B798", "U+C11C">>,
   <<"U+C65C", "U+B0D0", "U+D558", "U+BA74">>,
   <<"U+B54C", "U+BB38", "U+C5D0">>}

\* /^\d+$/.test(word)
isNumeric(word) == word # <<>> /\ \A i \in 1..Len(word) : word[i] \in Digits

\* the three filters of `words`
isKeyword(word) ==
  /\ Len(word) >= MinWordLen
  /\ word \notin stopWords
  /\ ~isNumeric(word)

\* wordFreq = {} is an ordinary object: it inherits the properties of
\* Object.prototype.  Of their names, the cleaning can produce these two.
constructorKey ==
  <<"c", "o", "n", "s", "t", "r", "u", "c", "t", "o", "r">>
protoKey == <<"_", "_", "p", "r", "o", "t", "o", "_", "_">>

\* an object is the sequence of its own properties in insertion order (no
\* key is an integer index: numeric words are filtered out); a property
\* holds a number, or (num = FALSE) a string that is no number
hasOwn(obj, word) == \E i \in 1..Len(obj) : obj[i].word = word

\* wordFreq[word] = (wordFreq[word] || 0) + 1
\*   own number n:        n + 1
\*   own string s:        s + 1 is a string again
\*   "__proto__":         reads Object.prototype; the setter ignores a string
\*   "constructor":       reads the function Object; Object + 1 is a string
\*   otherwise undefined: 0 + 1
countWord(obj, word) ==
  IF hasOwn(obj, word)
  THEN [i \in 1..Len(obj) |->
          IF obj[i].word = word /\ obj[i].num
          THEN [obj[i] EXCEPT !.count = @ + 1]
          ELSE obj[i]]
  ELSE IF word = protoKey THEN obj
  ELSE IF word = constructorKey
       THEN Append(obj, [word |-> word, num |-> FALSE, count |-> 0])
  ELSE Append(obj, [word |-> word, num |-> TRUE, count |-> 1])

\* words.forEach(...)
RECURSIVE wordFreq(_, _)
wordFreq(obj, words) ==
  IF words = <<>> THEN obj
  ELSE wordFreq(countWord(obj, Head(words)), Tail(words))

\* ([, a], [, b]) => b - a; a NaN result counts as +0
compare(a, b) == IF a.num /\ b.num THEN b.count - a.count ELSE 0

\* Array.prototype.sort: stable (insertion sort).  When the comparator is
\* inconsistent (a string count beside different numbers) the order of the
\* real sort is implementation-defined.
RECURSIVE insert(_, _)
insert(sorted, x) ==
  IF sorted = <<>> THEN <<x>>
  ELSE IF compare(sorted[Len(sorted)], x) > 0
       THEN Append(insert(SubSeq(sorted, 1, Len(sorted) - 1), x),
                   sorted[Len(sorted)])
       ELSE Append(sorted, x)

RECURSIVE sort(_)
sort(entries) ==
  IF entries = <<>> THEN <<>>
  ELSE insert(sort(SubSeq(entries, 1, Len(entries) - 1)),
              entries[Len(entries)])

\* a result that is not cut
sliceAll(s, n) == s

\* .slice(0, n)
slice(s, n) == SubSeq(s, 1, Min(n, Len(s)))

\* the `words` of a text
wordsOf(text) ==
  SelectSeq(split(trim(replaceSpaces(replaceSpecial(toLowerCase(text)),
                                    FALSE))),
            isKeyword)

extractKeywords(text) ==
  IF text = <<>> THEN <<>>
  ELSE LET entries == slice(sort(wordFreq(<<>>, wordsOf(text))), MaxKeywords)
       IN  [i \in 1..Len(entries) |-> entries[i].word]

\* ---------------------------------------------- extractKeywords under test
\* the watcher's variables while a utility function is tested on its own
watcherVars == <<lifeVars, dom, overlays, rendered, elemVars, debVars>>

WatcherIdle ==
  /\ platform = "none"
  /\ stored = TRUE
  /\ initPc = "done"
  /\ isEnabled = TRUE
  /\ observer = "null"
  /\ pendingSet = <<>>
  /\ existingTimer = FALSE
  /\ interval = 0
  /\ tornDown = FALSE
  /\ active = 0
  /\ timers = {}
  /\ dom = <<>>
  /\ processed = {}
  /\ inflight = {}
  /\ overlays = {}
  /\ started = [e \in Elems |-> 0]
  /\ failed = {}
  /\ dirty = FALSE
  /\ rendered = {}
  /\ lastPass = {}
  /\ lastNew = {}
  /\ lastClean = FALSE
  /\ sinceNotify = 0
  /\ calls = 0
  /\ fires = 0

\* the words the short texts are made of: AI model data data, is it a 42
\* constructor
Vocabulary ==
  {<<"A", "I">>,
   <<"m", "o", "d", "e", "l">>,
   <<"d", "a", "t", "a">>,
   <<"d", "a", "t", "a", ",">>,
   <<"i", "s">>,
   <<"i", "t">>,
   <<"a">>,
   <<"4", "2">>,
   <<"c", "o", "n", "s", "t", "r", "u", "c", "t", "o", "r">>}

\* words.join(" ")
RECURSIVE join(_)
join(ws) ==
  IF ws = <<>> THEN <<>>
  ELSE IF Len(ws) = 1 THEN ws[1]
  ELSE ws[1] \o <<" ">> \o join(Tail(ws))

\* "AI AI AI model model data"
ExampleFrequency ==
  <<"A", "I", " ", "A", "I", " ", "A", "I", " ", "m", "o", "d", "e", "l",
    " ", "m", "o", "d", "e", "l", " ", "d", "a", "t", "a">>

\* "is a it to of 그 이"
ExampleStopWords ==
  <<"i", "s", " ", "a", " ", "i", "t", " ", "t", "o", " ", "o", "f", " ",
    "U+ADF8", " ", "U+C774">>

\* "The AI model data 42 is it a Learning\nnetwork deep!"
ExampleLong ==
  <<"T", "h", "e", " ", "A", "I", " ", "m", "o", "d", "e", "l", " ", "d",
    "a", "t", "a", " ", "4", "2", " ", "i", "s", " ", "i", "t", " ", "a",
    " ", "L", "e", "a", "r", "n", "i", "n", "g", "\n", "n", "e", "t", "w",
    "o", "r", "k", " ", "d", "e", "e", "p", "!">>

Texts ==
  {join(ws) : ws \in UNION {[1..k -> Vocabulary] : k \in 0..MaxWords}}
    \cup {ExampleFrequency, ExampleStopWords, ExampleLong}

ExtractInit ==
  /\ WatcherIdle
  /\ pc = "call"
  /\ arg \in Texts
  /\ ret = <<>>

\* HallucinationLensUtils.extractKeywords(text)
CallExtractKeywords ==
  /\ pc = "call"
  /\ pc' = "return"
  /\ ret' = extractKeywords(arg)
  /\ UNCHANGED <<arg, watcherVars>>

ExtractNext == CallExtractKeywords

ExtractSpec == ExtractInit /\ [][ExtractNext]_vars

\* ------------------------------------------------------- analyzeKeywords
\* the alternatives of the highQualityPatterns that list words
highQualityWords ==
  {<<"a", "l", "g", "o", "r", "i", "t", "h", "m">>, <<"d", "a", "t", "a">>,
   <<"r", "e", "s", "e", "a", "r", "c", "h">>, <<"s", "t", "u", "d", "y">>,
   <<"t", "e", "c", "h", "n", "o", "l", "o", "g", "y">>,
   <<"s", "c", "i", "e", "n", "c", "e">>,
   <<"m", "e", "d", "i", "c", "i", "n", "e">>,
   <<"p", "h", "y", "s", "i", "c", "s">>,
   <<"c", "h", "e", "m", "i", "s", "t", "r", "y">>,
   <<"b", "i", "o", "l", "o", "g", "y">>,
   <<"m", "a", "t", "h", "e", "m", "a", "t", "i", "c", "s">>,
   <<"e", "n", "g", "i", "n", "e", "e", "r", "i", "n", "g">>,
   <<"U+C54C", "U+ACE0", "U+B9AC", "U+C998">>,
   <<"U+B370", "U+C774", "U+D130">>, <<"U+C5F0", "U+AD6C">>,
   <<"U+AE30", "U+C220">>, <<"U+ACFC", "U+D559">>, <<"U+C758", "U+D559">>,
   <<"U+BB3C", "U+B9AC", "U+D559">>, <<"U+D654", "U+D559">>,
   <<"U+C0DD", "U+BB3C", "U+D559">>, <<"U+C218", "U+D559">>,
   <<"U+ACF5", "U+D559">>, <<"a", "i">>,
   <<"a", "r", "t", "i", "f", "i", "c", "i", "a", "l">>,
   <<"i", "n", "t", "e", "l", "l", "i", "g", "e", "n", "c", "e">>,
   <<"m", "o", "d", "e", "l">>, <<"n", "e", "u", "r", "a", "l">>,
   <<"n", "e", "t", "w", "o", "r", "k">>,
   <<"m", "a", "c", "h", "i", "n", "e">>,
   <<"l", "e", "a", "r", "n", "i", "n", "g">>, <<"d", "e", "e", "p">>,
   <<"g", "o", "o", "g", "l", "e">>,
   <<"m", "i", "c", "r", "o", "s", "o", "f", "t">>,
   <<"a", "p", "p", "l", "e">>, <<"m", "e", "t", "a">>,
   <<"o", "p", "e", "n", "a", "i">>,
   <<"a", "n", "t", "h", "r", "o", "p", "i", "c">>,
   <<"c", "l", "a", "u", "d", "e">>, <<"c", "h", "a", "t", "g", "p", "t">>,
   <<"g", "e", "m", "i", "n", "i">>, <<"b", "a", "r", "d">>,
   <<"U+C778", "U+ACF5", "U+C9C0", "U+B2A5">>, <<"U+BAA8", "U+B378">>,
   <<"U+C2E0", "U+ACBD", "U+B9DD">>,
   <<"U+BA38", "U+C2E0", "U+B7EC", "U+B2DD">>,
   <<"U+B525", "U+B7EC", "U+B2DD">>, <<"U+AD6C", "U+AE00">>,
   <<"U+B9C8", "U+C774", "U+D06C", "U+B85C", "U+C18C", "U+D504", "U+D2B8">>,
   <<"U+C560", "U+D50C">>, <<"U+BA54", "U+D0C0">>, <<"U+AC80", "U+C0C9">>,
   <<"U+C5D4", "U+C9C4">>, <<"U+BE14", "U+B85C", "U+ADF8">>,
   <<"U+C6F9", "U+C0AC", "U+C774", "U+D2B8">>,
   <<"U+D50C", "U+B7AB", "U+D3FC">>,
   <<"d", "e", "f", "i", "n", "i", "t", "i", "o", "n">>,
   <<"e", "x", "p", "l", "a", "n", "a", "t", "i", "o", "n">>,
   <<"h", "i", "s", "t", "o", "r", "y">>,
   <<"g", "e", "o", "g", "r", "a", "p", "h", "y">>,
   <<"c", "u", "l", "t", "u", "r", "e">>,
   <<"l", "a", "n", "g", "u", "a", "g", "e">>,
   <<"e", "d", "u", "c", "a", "t", "i", "o", "n">>,
   <<"k", "n", "o", "w", "l", "e", "d", "g", "e">>,
   <<"i", "n", "f", "o", "r", "m", "a", "t", "i", "o", "n">>,
   <<"n", "e", "w", "s">>, <<"a", "r", "t", "i", "c", "l", "e">>,
   <<"r", "e", "p", "o", "r", "t">>,
   <<"p", "u", "b", "l", "i", "c", "a", "t", "i", "o", "n">>,
   <<"U+C815", "U+C758">>, <<"U+C124", "U+BA85">>, <<"U+C5ED", "U+C0AC">>,
   <<"U+C9C0", "U+B9AC">>, <<"U+BB38", "U+D654">>, <<"U+C5B8", "U+C5B4">>,
   <<"U+AD50", "U+C721">>, <<"U+C9C0", "U+C2DD">>, <<"U+C815", "U+BCF4">>,
   <<"U+B274", "U+C2A4">>, <<"U+AE30", "U+C0AC">>,
   <<"U+BCF4", "U+ACE0", "U+C11C">>, <<"U+BC1C", "U+D45C">>,
   <<"U+ACF5", "U+C2DD">>, <<"U+CD9C", "U+C2DC">>, <<"U+ACF5", "U+AC1C">>,
   <<"U+B7F0", "U+CE6D">>, <<"U+C5C5", "U+B370", "U+C774", "U+D2B8">>,
   <<"U+BC84", "U+C804">>, <<"y", "e", "a", "r">>,
   <<"m", "o", "n", "t", "h">>, <<"d", "a", "y">>, <<"d", "a", "t", "e">>,
   <<"t", "i", "m", "e">>, <<"c", "e", "n", "t", "u", "r", "y">>,
   <<"d", "e", "c", "a", "d", "e">>, <<"2", "0", "2", "0">>,
   <<"2", "0", "2", "1">>, <<"2", "0", "2", "2">>, <<"2", "0", "2", "3">>,
   <<"2", "0", "2", "4">>, <<"2", "0", "2", "5">>, <<"U+B144">>,
   <<"U+C6D4">>, <<"U+C77C">>, <<"U+B0A0", "U+C9DC">>,
   <<"U+C2DC", "U+AC04">>, <<"U+C138", "U+AE30">>, <<"U+C5F0", "U+B3C4">>}

\* the alternatives of the veryGenericPatterns that list words
veryGenericWords ==
  {<<"t", "h", "e">>, <<"a", "n", "d">>, <<"o", "r">>, <<"b", "u", "t">>,
   <<"i", "n">>, <<"o", "n">>, <<"a", "t">>, <<"t", "o">>,
   <<"f", "o", "r">>, <<"o", "f">>, <<"w", "i", "t", "h">>, <<"b", "y">>,
   <<"i", "s">>, <<"a", "r", "e">>, <<"w", "a", "s">>,
   <<"w", "e", "r", "e">>, <<"b", "e">>, <<"b", "e", "e", "n">>,
   <<"h", "a", "v", "e">>, <<"h", "a", "s">>, <<"h", "a", "d">>,
   <<"d", "o">>, <<"d", "o", "e", "s">>, <<"d", "i", "d">>, <<"U+ADF8">>,
   <<"U+C774">>, <<"U+C800">>, <<"U+AC83">>, <<"U+C218">>, <<"U+C788">>,
   <<"U+C5C6">>, <<"U+D558">>, <<"U+B418">>, <<"U+B41C">>, <<"U+B420">>,
   <<"U+D568">>, <<"U+C784">>}

\* highQualityPatterns.some((pattern) => pattern.test(keyword)): a listed
\* word (the patterns ignore case), /\d+/ or /.{4,}/
matchesHighQuality(keyword) ==
  \/ toLowerCase(keyword) \in highQualityWords
  \/ \E i \in 1..Len(keyword) : keyword[i] \in Digits
  \/ Len(keyword) >= LongWordLen

\* veryGenericPatterns.some((pattern) => pattern.test(keyword)): a listed
\* word or /^.{1,2}$/
matchesVeryGeneric(keyword) ==
  \/ toLowerCase(keyword) \in veryGenericWords
  \/ (Len(keyword) >= 1 /\ Len(keyword) <= ShortWordLen)

\* keywords.reduce((sum, k) => sum + k.length, 0)
RECURSIVE sumLength(_)
sumLength(keywords) ==
  IF keywords = <<>> THEN 0
  ELSE Len(Head(keywords)) + sumLength(Tail(keywords))

\* avgLength = sum / keywords.length, kept as the pair (sum, count):
\* avgLength >= n is sum >= n * count, avgLength < n is sum < n * count
analyzeKeywords(keywords) ==
  IF keywords = <<>>
  THEN [isHighQuality |-> FALSE, isVeryGeneric |-> TRUE,
        hasAvg |-> FALSE, sum |-> 0, keywordCount |-> 0]
  ELSE LET sum == sumLength(keywords)
           count == Len(keywords)
           hasHighQuality ==
             \E i \in 1..count : matchesHighQuality(keywords[i])
           isVeryGeneric ==
             \/ \A i \in 1..count : matchesVeryGeneric(keywords[i])
             \/ sum < AvgLengthMin * count
           isHighQuality ==
             /\ hasHighQuality
             /\ count >= KeywordCountMin
             /\ sum >= AvgLengthMin * count
       IN  [isHighQuality |-> isHighQuality, isVeryGeneric |-> isVeryGeneric,
            hasAvg |-> TRUE, sum |-> sum, keywordCount |-> count]

\* ---------------------------------------------------- calculateTrustScore
\* the returned object: score, color, which of the reasons, and the number
\* the reason text quotes (0 when it quotes none)
TrustInfo(score, color, reason, n) ==
  [score |-> score, color |-> color, reason |-> reason, n |-> n]

\* a scorer that gives low whenever there are no search results
noEvidenceAlwaysLow(keywordAnalysis) ==
  TrustInfo("low", "#ff6b6b", "no-results", 0)

\* the branch for !searchResults || searchResults.length === 0
noEvidence(keywordAnalysis) ==
  IF keywordAnalysis.isVeryGeneric
  THEN TrustInfo("low", "#ff6b6b", "too-generic", 0)
  ELSE IF /\ keywordAnalysis.hasAvg
          /\ keywordAnalysis.sum >= AvgLengthMin * keywordAnalysis.keywordCount
          /\ keywordAnalysis.keywordCount >= KeywordCountMin
  THEN TrustInfo("medium", "#ffd43b", "plausible-unverified", 0)
  ELSE TrustInfo("low", "#ff6b6b", "hard-to-verify", 0)

\* a filter that takes no result for a reliable one
noneReliable(result) == FALSE

\* a filter that takes every result for a reliable one
anyResult(result) == TRUE

\* (result) => result.isReliable !== false; isReliable is "true", "false"
\* or "undefined" (the field is missing)
isReliableResult(result) == result.isReliable # "false"

\* a scorer that gives medium whenever a reliable result exists
withReliableAlwaysMedium(keywordAnalysis, n) ==
  TrustInfo("medium", "#ffd43b", "found-unspecific", 0)

\* a scorer that gives low to unspecific keywords with reliable results
withReliableLowUnlessSpecific(keywordAnalysis, n) ==
  IF keywordAnalysis.isHighQuality
  THEN TrustInfo("high", "#51cf66", "found-specific", n)
  ELSE TrustInfo("low", "#ff6b6b", "found-unspecific", 0)

\* the branch for reliableResults.length > 0; n is reliableResults.length,
\* which the reason of the high verdict quotes
withReliable(keywordAnalysis, n) ==
  IF keywordAnalysis.isHighQuality
  THEN TrustInfo("high", "#51cf66", "found-specific", n)
  ELSE TrustInfo("medium", "#ffd43b", "found-unspecific", 0)

\* searchResults is absent (null, undefined) or a list of results, of which
\* the scorer reads isReliable and nothing else
calculateTrustScore(present, searchResults, keywords) ==
  LET keywordAnalysis == analyzeKeywords(keywords)
      reliableResults ==
        SelectSeq(searchResults, LAMBDA r : isReliableResult(r))
      unreliableResults ==
        SelectSeq(searchResults, LAMBDA r : r.isReliable = "false")
  IN  IF ~present \/ Len(searchResults) = 0
      THEN noEvidence(keywordAnalysis)
      ELSE IF Len(reliableResults) = 0 /\ Len(unreliableResults) > 0
      THEN TrustInfo("low", "#ff6b6b", "subjective", 0)
      ELSE IF Len(reliableResults) > 0
      THEN withReliable(keywordAnalysis, Len(reliableResults))
      ELSE TrustInfo("medium", "#ffd43b", "default", 0)

\* ------------------------------------------- calculateTrustScore under test
\* keywords to score: it ai the with cat model x1 그 데이터
ScoreVocabulary ==
  {<<"i", "t">>, <<"a", "i">>, <<"t", "h", "e">>, <<"w", "i", "t", "h">>,
   <<"c", "a", "t">>, <<"m", "o", "d", "e", "l">>, <<"x", "1">>, <<"U+ADF8">>,
   <<"U+B370", "U+C774", "U+D130">>}

Reliabilities == {"true", "false", "undefined"}

\* a result's url is the sentinel "#" or a link
Urls == {"#", "link"}

SearchResults ==
  UNION {[1..k -> [isReliable : Reliabilities, url : Urls]] :
           k \in 0..MaxResults}

KeywordLists ==
  UNION {[1..k -> ScoreVocabulary] : k \in 0..MaxScoreKeywords}

ScoreInit ==
  /\ WatcherIdle
  /\ pc = "call"
  /\ arg \in [present : BOOLEAN, searchResults : SearchResults,
              keywords : KeywordLists]
  /\ arg.present \/ arg.searchResults = <<>>
  /\ ret = <<>>

\* HallucinationLensUtils.calculateTrustScore(searchResults, keywords)
CallCalculateTrustScore ==
  /\ pc = "call"
  /\ pc' = "return"
  /\ ret' = calculateTrustScore(arg.present, arg.searchResults, arg.keywords)
  /\ UNCHANGED <<arg, watcherVars>>

ScoreNext == CallCalculateTrustScore

ScoreSpec == ScoreInit /\ [][ScoreNext]_vars

\* ---------------------------------------------- generateMockSearchResults
\* the terms of factualKeywords
factualKeywords ==
  {<<"s", "c", "i", "e", "n", "c", "e">>,
   <<"t", "e", "c", "h", "n", "o", "l", "o", "g", "y">>,
   <<"r", "e", "s", "e", "a", "r", "c", "h">>, <<"s", "t", "u", "d", "y">>,
   <<"d", "a", "t", "a">>, <<"a", "l", "g", "o", "r", "i", "t", "h", "m">>,
   <<"c", "o", "m", "p", "u", "t", "e", "r">>,
   <<"i", "n", "t", "e", "r", "n", "e", "t">>,
   <<"p", "h", "y", "s", "i", "c", "s">>,
   <<"c", "h", "e", "m", "i", "s", "t", "r", "y">>,
   <<"b", "i", "o", "l", "o", "g", "y">>,
   <<"m", "a", "t", "h", "e", "m", "a", "t", "i", "c", "s">>,
   <<"e", "n", "g", "i", "n", "e", "e", "r", "i", "n", "g">>,
   <<"m", "e", "d", "i", "c", "i", "n", "e">>,
   <<"h", "e", "a", "l", "t", "h">>, <<"a", "i">>,
   <<"a", "r", "t", "i", "f", "i", "c", "i", "a", "l">>,
   <<"i", "n", "t", "e", "l", "l", "i", "g", "e", "n", "c", "e">>,
   <<"m", "o", "d", "e", "l">>, <<"n", "e", "u", "r", "a", "l">>,
   <<"n", "e", "t", "w", "o", "r", "k">>,
   <<"m", "a", "c", "h", "i", "n", "e">>,
   <<"l", "e", "a", "r", "n", "i", "n", "g">>, <<"d", "e", "e", "p">>,
   <<"g", "o", "o", "g", "l", "e">>,
   <<"m", "i", "c", "r", "o", "s", "o", "f", "t">>,
   <<"a", "p", "p", "l", "e">>, <<"m", "e", "t", "a">>,
   <<"o", "p", "e", "n", "a", "i">>,
   <<"a", "n", "t", "h", "r", "o", "p", "i", "c">>,
   <<"c", "l", "a", "u", "d", "e">>, <<"c", "h", "a", "t", "g", "p", "t">>,
   <<"g", "e", "m", "i", "n", "i">>, <<"b", "a", "r", "d">>,
   <<"U+ACFC", "U+D559">>, <<"U+AE30", "U+C220">>, <<"U+C5F0", "U+AD6C">>,
   <<"U+B370", "U+C774", "U+D130">>,
   <<"U+C54C", "U+ACE0", "U+B9AC", "U+C998">>,
   <<"U+CEF4", "U+D4E8", "U+D130">>, <<"U+C778", "U+D130", "U+B137">>,
   <<"U+BB3C", "U+B9AC", "U+D559">>, <<"U+D654", "U+D559">>,
   <<"U+C0DD", "U+BB3C", "U+D559">>, <<"U+C218", "U+D559">>,
   <<"U+ACF5", "U+D559">>, <<"U+C758", "U+D559">>, <<"U+AC74", "U+AC15">>,
   <<"U+C778", "U+ACF5", "U+C9C0", "U+B2A5">>, <<"U+BAA8", "U+B378">>,
   <<"U+C2E0", "U+ACBD", "U+B9DD">>,
   <<"U+BA38", "U+C2E0", "U+B7EC", "U+B2DD">>,
   <<"U+B525", "U+B7EC", "U+B2DD">>, <<"U+AD6C", "U+AE00">>,
   <<"U+B9C8", "U+C774", "U+D06C", "U+B85C", "U+C18C", "U+D504", "U+D2B8">>,
   <<"U+C560", "U+D50C">>, <<"U+BA54", "U+D0C0">>, <<"U+AC80", "U+C0C9">>,
   <<"U+C5D4", "U+C9C4">>, <<"U+BE14", "U+B85C", "U+ADF8">>,
   <<"U+C6F9", "U+C0AC", "U+C774", "U+D2B8">>,
   <<"U+D50C", "U+B7AB", "U+D3FC">>, <<"h", "i", "s", "t", "o", "r", "y">>,
   <<"g", "e", "o", "g", "r", "a", "p", "h", "y">>,
   <<"c", "o", "u", "n", "t", "r", "y">>, <<"c", "i", "t", "y">>,
   <<"w", "o", "r", "l", "d">>, <<"c", "u", "l", "t", "u", "r", "e">>,
   <<"l", "a", "n", "g", "u", "a", "g", "e">>,
   <<"p", "o", "p", "u", "l", "a", "t", "i", "o", "n">>,
   <<"y", "e", "a", "r">>, <<"m", "o", "n", "t", "h">>, <<"d", "a", "y">>,
   <<"d", "a", "t", "e">>, <<"t", "i", "m", "e">>,
   <<"c", "e", "n", "t", "u", "r", "y">>, <<"d", "e", "c", "a", "d", "e">>,
   <<"2", "0", "2", "0">>, <<"2", "0", "2", "1">>, <<"2", "0", "2", "2">>,
   <<"2", "0", "2", "3">>, <<"2", "0", "2", "4">>, <<"2", "0", "2", "5">>,
   <<"U+C5ED", "U+C0AC">>, <<"U+C9C0", "U+B9AC">>, <<"U+AD6D", "U+AC00">>,
   <<"U+B3C4", "U+C2DC">>, <<"U+C138", "U+ACC4">>, <<"U+BB38", "U+D654">>,
   <<"U+C5B8", "U+C5B4">>, <<"U+C778", "U+AD6C">>, <<"U+B144">>,
   <<"U+C6D4">>, <<"U+C77C">>, <<"U+B0A0", "U+C9DC">>,
   <<"U+C2DC", "U+AC04">>, <<"U+C138", "U+AE30">>, <<"U+C5F0", "U+B3C4">>,
   <<"d", "e", "f", "i", "n", "i", "t", "i", "o", "n">>,
   <<"m", "e", "a", "n", "i", "n", "g">>,
   <<"e", "x", "p", "l", "a", "n", "a", "t", "i", "o", "n">>,
   <<"h", "o", "w">>, <<"w", "h", "a", "t">>, <<"w", "h", "e", "n">>,
   <<"w", "h", "e", "r", "e">>, <<"w", "h", "y">>, <<"w", "h", "o">>,
   <<"w", "h", "i", "c", "h">>, <<"U+C815", "U+C758">>,
   <<"U+C758", "U+BBF8">>, <<"U+C124", "U+BA85">>,
   <<"U+C5B4", "U+B5BB", "U+AC8C">>, <<"U+BB34", "U+C5C7">>,
   <<"U+C5B8", "U+C81C">>, <<"U+C5B4", "U+B514", "U+C11C">>, <<"U+C65C">>,
   <<"U+B204", "U+AD6C">>, <<"U+C5B4", "U+B290">>,
   <<"e", "d", "u", "c", "a", "t", "i", "o", "n">>,
   <<"s", "c", "h", "o", "o", "l">>,
   <<"u", "n", "i", "v", "e", "r", "s", "i", "t", "y">>,
   <<"b", "o", "o", "k">>, <<"k", "n", "o", "w", "l", "e", "d", "g", "e">>,
   <<"i", "n", "f", "o", "r", "m", "a", "t", "i", "o", "n">>,
   <<"n", "e", "w", "s">>, <<"a", "r", "t", "i", "c", "l", "e">>,
   <<"r", "e", "p", "o", "r", "t">>,
   <<"p", "u", "b", "l", "i", "c", "a", "t", "i", "o", "n">>,
   <<"U+AD50", "U+C721">>, <<"U+D559", "U+C2B5">>, <<"U+D559", "U+AD50">>,
   <<"U+B300", "U+D559", "U+AD50">>, <<"U+CC45">>, <<"U+C9C0", "U+C2DD">>,
   <<"U+C815", "U+BCF4">>, <<"U+B274", "U+C2A4">>, <<"U+AE30", "U+C0AC">>,
   <<"U+BCF4", "U+ACE0", "U+C11C">>, <<"U+BC1C", "U+D45C">>,
   <<"U+ACF5", "U+C2DD">>, <<"U+CD9C", "U+C2DC">>, <<"U+ACF5", "U+AC1C">>,
   <<"U+B7F0", "U+CE6D">>, <<"U+C5C5", "U+B370", "U+C774", "U+D2B8">>,
   <<"U+BC84", "U+C804">>}

\* the terms of subjectiveKeywords
subjectiveKeywords ==
  {<<"o", "p", "i", "n", "i", "o", "n">>, <<"t", "h", "i", "n", "k">>,
   <<"b", "e", "l", "i", "e", "v", "e">>, <<"f", "e", "e", "l">>,
   <<"p", "e", "r", "s", "o", "n", "a", "l">>,
   <<"s", "u", "b", "j", "e", "c", "t", "i", "v", "e">>,
   <<"p", "r", "e", "f", "e", "r", "e", "n", "c", "e">>,
   <<"t", "a", "s", "t", "e">>, <<"b", "e", "s", "t">>,
   <<"w", "o", "r", "s", "t">>, <<"f", "a", "v", "o", "r", "i", "t", "e">>,
   <<"r", "e", "c", "o", "m", "m", "e", "n", "d">>,
   <<"s", "u", "g", "g", "e", "s", "t">>, <<"a", "d", "v", "i", "c", "e">>,
   <<"U+C758", "U+ACAC">>, <<"U+C0DD", "U+AC01">>, <<"U+BBFF", "U+B2E4">>,
   <<"U+B290", "U+B07C", "U+B2E4">>, <<"U+AC1C", "U+C778", "U+C801">>,
   <<"U+C8FC", "U+AD00", "U+C801">>, <<"U+C120", "U+D638">>,
   <<"U+CDE8", "U+D5A5">>, <<"U+CD5C", "U+ACE0">>, <<"U+CD5C", "U+C545">>,
   <<"U+C88B", "U+C544", "U+D558", "U+B294">>, <<"U+CD94", "U+CC9C">>,
   <<"U+C81C", "U+C548">>, <<"U+C870", "U+C5B8">>}

\* String.prototype.includes: sub occurs in str as a contiguous run; the
\* empty string occurs in every string
includes(str, sub) ==
  \E i \in 0..(Len(str) - Len(sub)) : SubSeq(str, i + 1, i + Len(sub)) = sub

\* factual.toLowerCase() for each term of factualKeywords
factualLower == {toLowerCase(term) : term \in factualKeywords}

\* subjective.toLowerCase() for each term of subjectiveKeywords
subjectiveLower == {toLowerCase(term) : term \in subjectiveKeywords}

\* keywords.some((keyword) => table.some((term) =>
\*   keyword.toLowerCase().includes(term.toLowerCase()) ||
\*   term.toLowerCase().includes(keyword.toLowerCase())))
\* with lowered the terms of the table in lower case
someRelated(keywords, lowered) ==
  \E i \in 1..Len(keywords) :
    LET keyword == toLowerCase(keywords[i])
    IN  \E term \in lowered :
          includes(keyword, term) \/ includes(term, keyword)

hasFactualKeywords(keywords) == someRelated(keywords, factualLower)

\* a classification that finds nothing subjective
neverSubjective(keywords) == FALSE

hasSubjectiveKeywords(keywords) == someRelated(keywords, subjectiveLower)

\* a complexity test without the count
hasComplexKeywordsAnyCount(keywords) ==
  keywords # <<>> /\ sumLength(keywords) > ComplexAvgLen * Len(keywords)

\* avgKeywordLength > 4 && keywords.length >= 3; the average of no keywords
\* is NaN, which is not > 4
hasComplexKeywords(keywords) ==
  /\ keywords # <<>>
  /\ sumLength(keywords) > ComplexAvgLen * Len(keywords)
  /\ Len(keywords) >= ComplexMinCount

\* a guard that lets everything through
guardNever(keywords) == FALSE

\* keywords.every((k) => k.length <= 1) || keywords.length < 1
tooShort(keywords) ==
  \/ \A i \in 1..Len(keywords) : Len(keywords[i]) <= GuardLen
  \/ Len(keywords) < 1

\* a result object, of which the model keeps isReliable and whether the url
\* is the sentinel "#"
Result(isReliable, url) == [isReliable |-> isReliable, url |-> url]

generateMockSearchResults(keywords) ==
  LET results ==
        IF hasFactualKeywords(keywords) \/ hasComplexKeywords(keywords)
        THEN IF Len(keywords) > 1
             THEN <<Result("true", "link"), Result("true", "link")>>
             ELSE <<Result("true", "link")>>
        ELSE IF hasSubjectiveKeywords(keywords)
        THEN <<Result("false", "#")>>
        ELSE <<>>
  IN  IF tooShort(keywords) THEN <<>> ELSE results

\* searchDuckDuckGo of the heuristic source; generateMockSearchResults throws
\* nothing on lists of strings, so the catch is not taken
searchDuckDuckGo(keywords) ==
  IF Len(keywords) = 0 THEN <<>> ELSE generateMockSearchResults(keywords)

\* ----------------------------------- heuristic source and scorer under test
\* keywords: a, xy, zebra, best, neural, 좋아하는, 추천
MockVocabulary ==
  {<<"a">>, <<"x", "y">>, <<"z", "e", "b", "r", "a">>,
   <<"b", "e", "s", "t">>, <<"n", "e", "u", "r", "a", "l">>,
   <<"U+C88B", "U+C544", "U+D558", "U+B294">>, <<"U+CD94", "U+CC9C">>}

MockKeywordLists ==
  UNION {[1..k -> MockVocabulary] : k \in 0..MaxMockKeywords}

ExampleFactual == <<<<"n", "e", "u", "r", "a", "l">>, <<"n", "e", "t", "w", "o", "r", "k">>,
                  <<"a", "l", "g", "o", "r", "i", "t", "h", "m">>>>

ExampleSubjective == <<<<"U+C88B", "U+C544", "U+D558", "U+B294">>, <<"U+CD94", "U+CC9C">>>>

MockInit ==
  /\ WatcherIdle
  /\ pc = "call"
  /\ arg \in [keywords : MockKeywordLists
                           \cup {ExampleFactual, ExampleSubjective}]
  /\ ret = <<>>

\* processResponseElement: searchResults = await searchDuckDuckGo(keywords)
CallSearchDuckDuckGo ==
  /\ pc = "call"
  /\ pc' = "searched"
  /\ ret' = [searchResults |-> searchDuckDuckGo(arg.keywords)]
  /\ UNCHANGED <<arg, watcherVars>>

\* processResponseElement: trustInfo = calculateTrustScore(searchResults,
\* keywords)
CallScoreResults ==
  /\ pc = "searched"
  /\ pc' = "return"
  /\ ret' = [searchResults |-> ret.searchResults,
             trustInfo |-> calculateTrustScore(TRUE, ret.searchResults,
                                               arg.keywords)]
  /\ UNCHANGED <<arg, watcherVars>>

MockNext == CallSearchDuckDuckGo \/ CallScoreResults

MockSpec == MockInit /\ [][MockNext]_vars

\* ------------------------------------------------- the live-lookup source
\* a text field of the response: missing or empty ("none"), white space
\* only ("blank"), or text
Fields == {"none", "blank", "text"}

\* the JSON the knowledge API answers with, as far as the code reads it;
\* ok is FALSE when fetch or response.json() throws or, for the content
\* script, when response.ok is false
Responses ==
  [ok : BOOLEAN, Abstract : Fields, AbstractURL : BOOLEAN,
   RelatedTopics :
     UNION {[1..k -> [Text : BOOLEAN, FirstURL : BOOLEAN]] :
              k \in 0..MaxTopics},
   Answer : Fields, AnswerURL : BOOLEAN]

\* the encyclopedia's answer: whether the search succeeded, and for each
\* page found whether its summary has an extract
WikiResponses ==
  [ok : BOOLEAN,
   pages : UNION {[1..k -> BOOLEAN] : k \in 0..MaxPages}]

\* data.AbstractURL || "#"
urlOr(hasUrl) == IF hasUrl THEN "link" ELSE "#"

\* data.RelatedTopics.slice(0, 2).forEach: an item for each topic with Text
\* and FirstURL
topicItems(topics, isReliable) ==
  LET first == slice(topics, TopicsCap)
      kept == SelectSeq(first, LAMBDA t : t.Text /\ t.FirstURL)
  IN  [i \in 1..Len(kept) |-> Result(isReliable, "link")]

\* what a call ends with: it threw, or it returned results
Outcome(threw, results) == [threw |-> threw, results |-> results]

\* a function body without try and catch: the exception leaves the function
uncaught(outcome) == outcome

\* try { ... } catch (error) { console.error(...); return []; }
caught(outcome) ==
  IF outcome.threw THEN Outcome(FALSE, <<>>) ELSE outcome

\* background.js searchDuckDuckGo(query): fetch or response.json() throws
\* when data.ok is FALSE, inside the try
backgroundSearchDuckDuckGo(data) ==
  caught(
    IF ~data.ok THEN Outcome(TRUE, <<>>)
    ELSE Outcome(FALSE,
           (IF data.Abstract = "text"
            THEN <<Result("true", urlOr(data.AbstractURL))>> ELSE <<>>)
           \o topicItems(data.RelatedTopics, "true")
           \o (IF data.Answer = "text"
               THEN <<Result("true", urlOr(data.AnswerURL))>> ELSE <<>>)))

\* background.js searchWikipedia(query): the first 2 pages, an item for each
\* summary with an extract
searchWikipedia(wiki) ==
  IF ~wiki.ok THEN <<>>
  ELSE LET kept == SelectSeq(slice(wiki.pages, PagesCap), LAMBDA e : e)
       IN  [i \in 1..Len(kept) |-> Result("true", "link")]

\* what a lookup gives back: the results and the sources it queried
Lookup(results, queried) == [results |-> results, queried |-> queried]

\* background.js performSearchRequest(query); an exception out of
\* searchDuckDuckGo would reach the catch at the end, past searchWikipedia
performSearchRequest(data, wiki) ==
  LET duckDuckGo == backgroundSearchDuckDuckGo(data)
  IN  IF duckDuckGo.threw
      THEN Lookup(<<>>, <<"duckduckgo">>)
      ELSE IF Len(duckDuckGo.results) > 0
      THEN Lookup(duckDuckGo.results, <<"duckduckgo">>)
      ELSE Lookup(searchWikipedia(wiki), <<"duckduckgo", "wikipedia">>)

\* fallbackSearch(query): the "no result" item, which has no isReliable
fallbackSearch == <<Result("undefined", "#")>>

\* results.slice(0, 2)
cap(results) == slice(results, ResultsCap)

\* searchDuckDuckGo(keywords) of the content script's live variant; its
\* items carry no isReliable; an Abstract of white space is truthy here
liveSearchDuckDuckGo(hasKeywords, data) ==
  IF ~hasKeywords THEN Lookup(<<>>, <<>>)
  ELSE IF ~data.ok THEN Lookup(fallbackSearch, <<"duckduckgo", "fallback">>)
  ELSE LET results ==
             (IF data.Abstract # "none" /\ data.AbstractURL
              THEN <<Result("undefined", "link")>> ELSE <<>>)
             \o topicItems(data.RelatedTopics, "undefined")
       IN  IF Len(results) = 0
           THEN Lookup(fallbackSearch, <<"duckduckgo", "fallback">>)
           ELSE Lookup(cap(results), <<"duckduckgo">>)

\* ---------------------------------------- the live-lookup source under test
LiveInit ==
  /\ WatcherIdle
  /\ pc = "call"
  /\ arg \in [hasKeywords : BOOLEAN, data : Responses, wiki : WikiResponses]
  /\ ret = <<>>

\* the background script answers a "search" message
CallPerformSearchRequest ==
  /\ pc = "call"
  /\ pc' = "background"
  /\ ret' = performSearchRequest(arg.data, arg.wiki)
  /\ UNCHANGED <<arg, watcherVars>>

\* HallucinationLensUtils.searchDuckDuckGo(keywords), live variant
CallLiveSearchDuckDuckGo ==
  /\ pc = "call"
  /\ pc' = "live"
  /\ ret' = liveSearchDuckDuckGo(arg.hasKeywords, arg.data)
  /\ UNCHANGED <<arg, watcherVars>>

LiveNext == CallPerformSearchRequest \/ CallLiveSearchDuckDuckGo

LiveSpec == LiveInit /\ [][LiveNext]_vars

\* --------------------------------------------------- discovery by selector
\* the elements of the page, in document order
PageElems == 1..MaxPageElems

\* what discovery reads of an element: textContent.trim().length is at most
\* 50 ("short"), 51 to 100 ("mid") or more ("long"); "user" is a long
\* element that holds an input or textarea or that isUserInput recognises
TextClasses == {"short", "mid", "long", "user"}

\* a selector of a list: querySelectorAll throws on it (a pattern the
\* browser cannot parse), or returns the elements it matches
Selectors ==
  {[throws |-> TRUE, matches |-> {}]}
    \cup {[throws |-> FALSE, matches |-> S] : S \in SUBSET PageElems}

\* document.querySelectorAll(selector)
querySelectorAll(selector) ==
  Outcome(selector.throws,
          SelectSeq([i \in 1..MaxPageElems |-> i],
                    LAMBDA e : e \in selector.matches))

\* the elements pushed and the number of selectors queried
Found(elements, queried) == [elements |-> elements, queried |-> queried]

\* one try around the whole loop: the first selector that throws ends it
RECURSIVE forEachSelectorAbort(_, _)
forEachSelectorAbort(selectors, accepted) ==
  IF selectors = <<>> THEN Found(<<>>, 0)
  ELSE LET found == querySelectorAll(Head(selectors))
       IN  IF found.threw THEN Found(<<>>, 1)
           ELSE LET rest == forEachSelectorAbort(Tail(selectors), accepted)
                IN  Found(SelectSeq(found.results, LAMBDA e : e \in accepted)
                            \o rest.elements,
                          rest.queried + 1)

\* selectors.forEach((selector) => { try { found = querySelectorAll(...);
\* push the accepted elements of found } catch (error) { warn } })
RECURSIVE forEachSelector(_, _)
forEachSelector(selectors, accepted) ==
  IF selectors = <<>> THEN Found(<<>>, 0)
  ELSE LET found == caught(querySelectorAll(Head(selectors)))
           rest == forEachSelector(Tail(selectors), accepted)
       IN  Found(SelectSeq(found.results, LAMBDA e : e \in accepted)
                   \o rest.elements,
                 rest.queried + 1)

\* elements.filter((el, index, arr) => arr.indexOf(el) === index)
unique(elements) ==
  SelectSeq([i \in 1..Len(elements) |->
               IF \E j \in 1..(i - 1) : elements[j] = elements[i]
               THEN 0 ELSE elements[i]],
            LAMBDA e : e # 0)

\* findElementsWithFallback() over a list of selectors and a page
findElementsWithFallbackBy(fallbackSelectors, page) ==
  LET found == forEachSelector(fallbackSelectors,
                               {e \in PageElems : page[e] = "long"})
  IN  Found(LastN(unique(found.elements), FallbackCap), found.queried)

\* findResponseElements() over the platform's list of selectors, the
\* generic list and a page
findResponseElementsBy(selectors, fallbackSelectors, page) ==
  LET found == forEachSelector(selectors, PageElems)
      filteredElements ==
        SelectSeq(unique(found.elements), LAMBDA e : page[e] # "short")
      fallbackElements ==
        findElementsWithFallbackBy(fallbackSelectors, page).elements
  IN  IF filteredElements = <<>> /\ fallbackElements # <<>>
      THEN Found(fallbackElements, found.queried)
      ELSE Found(filteredElements, found.queried)

\* ----------------------------------------- discovery by selector under test
SelectorLists == UNION {[1..k -> Selectors] : k \in 0..MaxSelectors}

DiscoverInit ==
  /\ WatcherIdle
  /\ pc = "call"
  /\ arg \in [selectors : SelectorLists, fallbackSelectors : SelectorLists,
              page : [PageElems -> TextClasses]]
  /\ Len(arg.selectors) + Len(arg.fallbackSelectors) <= MaxSelectors
  /\ ret = <<>>

\* this.findResponseElements()
CallFindResponseElements ==
  /\ pc = "call"
  /\ pc' = "platform"
  /\ ret' = findResponseElementsBy(arg.selectors, arg.fallbackSelectors,
                                   arg.page)
  /\ UNCHANGED <<arg, watcherVars>>

\* this.findElementsWithFallback()
CallFindElementsWithFallback ==
  /\ pc = "call"
  /\ pc' = "generic"
  /\ ret' = findElementsWithFallbackBy(arg.fallbackSelectors, arg.page)
  /\ UNCHANGED <<arg, watcherVars>>

DiscoverNext == CallFindResponseElements \/ CallFindElementsWithFallback

DiscoverSpec == DiscoverInit /\ [][DiscoverNext]_vars

\* ------------------------------------------- the MutationObserver callback
\* node.nodeType of an added node: Node.ELEMENT_NODE or a text node
NodeTypes == {"element", "text"}

NodeLists == UNION {[1..k -> NodeTypes] : k \in 0..MaxNodes}

\* a MutationRecord as far as the callback reads it; a record of
\* type characterData has no added nodes
Mutations ==
  [type : {"childList"}, addedNodes : NodeLists, removedNodes : BOOLEAN]
    \cup [type : {"characterData"}, addedNodes : {<<>>},
          removedNodes : {FALSE}]

\* the records of one callback: there is at least one
Batches == UNION {[1..k -> Mutations] : k \in 1..MaxNodes}

\* added nodes of a batch
RECURSIVE addedCount(_)
addedCount(mutations) ==
  IF mutations = <<>> THEN 0
  ELSE Len(Head(mutations).addedNodes) + addedCount(Tail(mutations))

\* mutations.forEach(...): hasNewContent after the loop
hasNewContent(mutations) ==
  \E i \in 1..Len(mutations) :
    /\ mutations[i].type = "childList"
    /\ Len(mutations[i].addedNodes) > 0
    /\ \E j \in 1..Len(mutations[i].addedNodes) :
         mutations[i].addedNodes[j] = "element"

\* a callback that runs the pass itself
observerCallbackSync(st, mutations) ==
  [schedule |-> FALSE,
   st |-> IF hasNewContent(mutations) THEN processNewContent(st) ELSE st]

\* the callback given to new MutationObserver: whether it calls
\* this.debouncedProcessNewContent(), and the element state it leaves
observerCallback(st, mutations) ==
  [schedule |-> hasNewContent(mutations), st |-> st]

\* -------------------------------- the MutationObserver callback under test
\* the watcher after init on a supported platform with the setting on, a
\* response element in the page, and a batch about to be delivered
ObserverInit ==
  /\ platform = "chatgpt"
  /\ stored = TRUE
  /\ initPc = "done"
  /\ isEnabled = TRUE
  /\ observer = "connected"
  /\ pendingSet = <<>>
  /\ existingTimer = TRUE
  /\ interval = 1
  /\ tornDown = FALSE
  /\ active = 1
  /\ timers = {}
  /\ dom = <<Element(FallbackMinLen + 1, FallbackMinLen + 1, TRUE, TRUE,
                     TRUE, "none")>>
  /\ processed = {}
  /\ inflight = {}
  /\ overlays = {}
  /\ started = [e \in Elems |-> 0]
  /\ failed = {}
  /\ dirty = TRUE
  /\ rendered = {}
  /\ lastPass = {}
  /\ lastNew = {}
  /\ lastClean = FALSE
  /\ sinceNotify = 0
  /\ calls = 0
  /\ fires = 0
  /\ pc = "call"
  /\ arg \in [batch : Batches]
  /\ addedCount(arg.batch) <= MaxNodes
  /\ ret = <<>>

\* the browser delivers the batch to the callback
ObserverCallback ==
  /\ pc = "call"
  /\ observer = "connected"
  /\ pc' = "notified"
  /\ LET r == observerCallback(State, arg.batch)
     IN  /\ IF r.schedule THEN Notify ELSE UNCHANGED debVars
         /\ processed' = r.st.processed
         /\ inflight' = r.st.inflight
         /\ started' = r.st.started
         /\ failed' = r.st.failed
  /\ UNCHANGED <<arg, ret, lifeVars, dom, overlays, rendered, dirty,
                 lastPass, lastNew, lastClean>>

ObserverNext ==
  \/ ObserverCallback
  \/ ExistingTimerFire
  \/ IntervalTick
  \/ DebounceFire
  \/ Tick
  \/ \E e \in Elems : LookupResolve(e)

ObserverSpec == ObserverInit /\ [][ObserverNext]_vars

\* ------------------------------------------ the page changes unobserved
\* a response element becomes discoverable without a batch that adds an
\* element node: its text grows by text nodes or character data, which the
\* observer callback does not count as new content
SilentAdd(p) ==
  /\ UNCHANGED utilVars
  /\ Len(dom) < MaxElems
  /\ dom' = Append(dom, p)
  /\ dirty' = TRUE
  /\ UNCHANGED <<lifeVars, overlays, rendered, processed, inflight, started,
                 failed, lastPass, lastNew, lastClean, debVars>>

QuietInit == Init /\ platform = "chatgpt"

QuietNext ==
  \/ InitResume
  \/ ExistingTimerFire
  \/ IntervalTick
  \/ DebounceFire
  \/ Tick
  \/ \E p \in Profiles : SilentAdd(p)
  \/ \E e \in Elems : LookupResolve(e)
  \/ \E enabled \in BOOLEAN : ToggleMessage(enabled)
  \/ SetEnabledResume

\* the event loop runs every timer that is due and resumes every call whose
\* await has settled; the page and the popup are free to do nothing
QuietFairness ==
  /\ WF_vars(InitResume)
  /\ WF_vars(ExistingTimerFire)
  /\ WF_vars(IntervalTick)
  /\ WF_vars(DebounceFire)
  /\ WF_vars(Tick)
  /\ WF_vars(SetEnabledResume)
  /\ \A e \in Elems : WF_vars(LookupResolve(e))

QuietSpec == QuietInit /\ [][QuietNext]_vars /\ QuietFairness

\* ------------------------------------------------- the text of a response
\* the response elements of a page whose answers are still being written:
\* complete, text mostly in code blocks (extracted text under 50
\* characters), and text without a keyword
StreamProfiles ==
  { Element(FallbackMinLen + 1, FallbackMinLen + 1, TRUE, TRUE, TRUE, "none"),
    Element(FallbackMinLen + 1, MinTextLen - 1, TRUE, TRUE, TRUE, "none"),
    Element(FallbackMinLen + 1, FallbackMinLen + 1, FALSE, TRUE, TRUE, "none") }

\* the answer goes on: text nodes and character data bring the extracted
\* text of an element over the minimum and give it keywords; the observer
\* callback schedules nothing for such a batch
TextGrows(e) ==
  /\ UNCHANGED utilVars
  /\ e \in 1..Len(dom)
  /\ dom[e].extLen < MinTextLen \/ ~dom[e].kw
  /\ dom' = [dom EXCEPT ![e].extLen = FallbackMinLen + 1, ![e].kw = TRUE]
  /\ dirty' = TRUE
  /\ UNCHANGED <<lifeVars, overlays, rendered, processed, inflight, started,
                 failed, lastPass, lastNew, lastClean, debVars>>

StreamInit == Init /\ platform = "chatgpt" /\ stored

StreamNext ==
  \/ InitResume
  \/ ExistingTimerFire
  \/ IntervalTick
  \/ DebounceFire
  \/ Tick
  \/ \E p \in StreamProfiles : AddElement(p)
  \/ \E e \in Elems : TextGrows(e)
  \/ \E e \in Elems : LookupResolve(e)

StreamSpec == StreamInit /\ [][StreamNext]_vars

\* ----------------------------------------------------- the length filters
\* text lengths around the thresholds of the code
LenValues ==
  {MinTextLen - 1, MinTextLen, MinTextLen + 1, FallbackMinLen,
   FallbackMinLen + 1}

\* a supported page, setting on, that already shows one response element
\* when the content script is constructed: its trimmed text has t
\* characters, x of them outside pre/code blocks
LengthInit ==
  /\ platform = "chatgpt"
  /\ stored = TRUE
  /\ initPc = "loading"
  /\ isEnabled = TRUE
  /\ observer = "null"
  /\ pendingSet = <<>>
  /\ existingTimer = FALSE
  /\ interval = 0
  /\ tornDown = FALSE
  /\ active = 0
  /\ timers = {}
  /\ \E t \in LenValues, x \in LenValues, p \in BOOLEAN :
       /\ x <= t
       /\ dom = <<Element(t, x, TRUE, p, TRUE, "none")>>
  /\ processed = {}
  /\ inflight = {}
  /\ overlays = {}
  /\ started = [e \in Elems |-> 0]
  /\ failed = {}
  /\ dirty = TRUE
  /\ rendered = {}
  /\ lastPass = {}
  /\ lastNew = {}
  /\ lastClean = FALSE
  /\ sinceNotify = 0
  /\ calls = 0
  /\ fires = 0
  /\ pc = "none"
  /\ arg = <<>>
  /\ ret = <<>>

LengthNext ==
  \/ InitResume
  \/ ExistingTimerFire
  \/ IntervalTick
  \/ DebounceFire
  \/ Tick
  \/ \E e \in Elems : LookupResolve(e)

LengthSpec == LengthInit /\ [][LengthNext]_vars

\* ---------------------------------------------------------------- claims
\* the watcher is off and at rest: the last setEnabled call to finish was a
\* disable (or init found the setting off), and no call is suspended
Disabled == ~stored /\ pendingSet = <<>> /\ initPc = "done"

\* C1: the pipeline is started at most once per element identity, and an
\* element whose lookup is in flight is already in ProcessedSet, so no pass
\* that runs meanwhile submits it again.
C1_AtMostOnce ==
  \A e \in Elems :
    /\ started[e] <= 1
    /\ e \in inflight => e \in processed
    /\ e \in lastPass => e \in processed

\* C1 witness: a later pass ran (and submitted nothing) while an element's
\* lookup was still in flight and a disable directive was being handled.
C1_Witness ==
  \E e \in inflight :
    /\ started[e] = 1
    /\ lastPass = {}
    /\ ~isEnabled

\* C2: a pass that runs when the page has not changed since the previous
\* pass submits no element, so it leads to no Presenter invocation.
C2_Idempotent == lastClean => lastPass = {}

\* C2 witness: the most recent pass ran on an unchanged page that holds
\* discovered elements, the earlier pass having taken them all.
C2_Witness ==
  /\ lastClean
  /\ lastPass = {}
  /\ Discovered # {}
  /\ Discovered \subseteq processed
  /\ interval > 0

\* C3 (as claimed): once a disable has taken effect the subscription and
\* the periodic timer are cancelled and no later timer tick or pending
\* debounced pass submits an element.
C3_DisableHalts ==
  [][Disabled => (/\ observer # "connected"
                  /\ interval = 0
                  /\ started' = started)]_vars

\* C4 (as claimed): the pass of a re-enable after a disable starts the
\* pipeline again for every discovered element that qualifies for an
\* overlay, the ones already in ProcessedSet included.
C4_ReEnableRerenders ==
  [][(/\ platform # "none"
      /\ observer = "disconnected"
      /\ pendingSet # <<>> /\ Head(pendingSet)
      /\ pendingSet' = Tail(pendingSet))
       => \A e \in Discovered :
            (ReachesLookup(e) /\ dom[e].fault = "none") => e \in inflight']_vars

\* C5 (as claimed): on an unsupported platform no subscription is created,
\* no timer is started and no element is processed, whatever directives
\* arrive.
C5_UnsupportedNeverStarts ==
  platform = "none" =>
    /\ observer = "null"
    /\ interval = 0
    /\ timers = {}
    /\ processed = {}

\* C6: at most one debounced pass is pending; every debounced call restarts
\* the full delay, so the pass runs only a full delay after the last call
\* of a burst; the calls of a burst stand behind one timeout, and after it
\* has run no further pass is pending.
C6_Debounce ==
  /\ Cardinality(timers) <= 1
  /\ \A r \in timers : r = DebounceTicks - sinceNotify
  /\ fires <= 1
  /\ calls > 0 <=> Cardinality(timers) = 1
  /\ fires = 1 => timers = {}

\* C6 witness: a burst of at least two debounced calls stands behind one
\* timeout, which is due a full delay after the last call.
C6_Witness == calls = 2 /\ timers = {0} /\ sinceNotify = DebounceTicks

\* C7: once a pass has run on the current page, whichever trigger ran it
\* and however many passes followed, the outcome is the one the page
\* determines: ProcessedSet holds every discovered element, each was
\* submitted exactly once, and each that reaches its lookup is in flight or
\* has been handed to the Presenter.
C7_OrderIndependent ==
  ~dirty =>
    \A e \in Discovered :
      /\ e \in processed
      /\ started[e] = 1
      /\ ReachesLookup(e) => (e \in inflight \/ e \in rendered \/ e \in failed)

\* C7 witness: the periodic timer runs, a debounced pass has run, and the
\* last pass found the page as the pass before it had left it.
C7_Witness ==
  /\ interval > 0
  /\ fires = 1
  /\ lastClean
  /\ Cardinality(Discovered) >= 2
  /\ inflight # {}

\* C8: every candidate a pass could take was submitted by it, whether or
\* not another candidate of the pass failed; and every submitted candidate
\* that reaches its lookup is in flight or has completed (overlay rendered,
\* or its own createOverlay failed), whatever happened to the others.
C8_FailureIsolated ==
  /\ lastPass = lastNew
  /\ \A e \in processed :
       ReachesLookup(e) =>
         \/ e \in inflight
         \/ e \in rendered
         \/ dom[e].fault = "overlay" /\ e \in failed

\* C8 witness: one pass submitted a failing candidate and, after it, a
\* candidate whose overlay has been rendered since.
C8_Witness ==
  \E f \in lastPass, e \in lastPass :
    /\ f < e
    /\ dom[f].fault = "extract"
    /\ f \in failed
    /\ e \in rendered

\* C9: a candidate whose processing failed stays in ProcessedSet and its
\* pipeline is never started again.
C9_FailedStaysProcessed ==
  \A e \in failed : e \in processed /\ started[e] = 1

\* C9 witness: an element failed in the pass that submitted it, and a later
\* pass found it again and did not take it.
C9_Witness ==
  \E e \in failed :
    /\ dom[e].fault = "extract"
    /\ e \in Discovered
    /\ e \notin lastPass
    /\ ~dirty

\* C10 (as claimed): from the arrival of a disable directive to the
\* cancellation no in-flight lookup resolves and renders.
C10_DisableBeforeResolve ==
  [][(platform # "none" /\ \E i \in 1..Len(pendingSet) : ~pendingSet[i])
       => overlays' \subseteq overlays]_vars

\* C11: the enabled flag is not consulted at delivery: also while the flag
\* is off, every submitted element that qualifies for an overlay and whose
\* lookup is no longer in flight has been handed to the Presenter; and the
\* overlays on the page are overlays the Presenter rendered.
C11_DeliveredAfterDisable ==
  /\ overlays \subseteq rendered
  /\ ~isEnabled =>
       \A e \in processed :
         (ReachesLookup(e) /\ dom[e].fault = "none" /\ e \notin inflight)
           => e \in rendered

\* C11 witness: no timer and no debounced pass ever ran, so every pass was
\* the pass of an enable directive; the disable that followed has taken
\* effect and cleared the overlays, and an overlay is on the page: its
\* lookup was in flight at the disable and rendered after it.
C11_Witness ==
  /\ platform # "none"
  /\ Disabled /\ ~isEnabled
  /\ interval = 0 /\ ~existingTimer
  /\ timers = {} /\ fires = 0
  /\ overlays # {}

Observing ==
  /\ platform # "none"
  /\ initPc = "done"
  /\ stored /\ isEnabled
  /\ pendingSet = <<>>

\* C13 (as claimed): in the Observing state, however it was reached, the
\* mutation subscription is connected and the periodic timer is running.
C13_ObservingSubscribedAndTimed ==
  Observing => (observer = "connected" /\ interval > 0)

\* C14 (as claimed): once cleanup has run nothing re-activates the watcher:
\* no step connects a subscription, submits an element or creates an overlay.
C14_TornDownIsTerminal ==
  [][(tornDown /\ initPc = "done")
       => (/\ observer' # "connected"
           /\ started' = started
           /\ overlays' \subseteq overlays)]_vars

\* C15: ProcessedSet only grows: every element a pipeline run was ever
\* started for is in it, after passes, disables, re-enables, cleanup and
\* failures alike.
C15_ProcessedOnlyGrows ==
  \A e \in Elems : started[e] > 0 => e \in processed

\* C15 witness: after passes, a failure, a completed disable and a cleanup,
\* the element that failed and an element whose overlay was removed are
\* both in ProcessedSet.
C15_Witness ==
  /\ tornDown /\ Disabled /\ observer = "disconnected"
  /\ \E e \in failed : e \in processed
  /\ \E e \in rendered \ overlays : e \in processed

\* C16 (as claimed): the length filter has threshold exactly 50: an element
\* whose extracted text is shorter than 50 never reaches the lookup, and
\* once a pass has run, an element the platform's selectors match whose
\* extracted text has 50 or more characters has reached it.
C16_ThresholdFifty ==
  \A e \in 1..Len(dom) :
    /\ dom[e].extLen < MinTextLen => (e \notin inflight /\ e \notin rendered)
    /\ (~dirty /\ dom[e].psel /\ dom[e].extLen >= MinTextLen)
         => (e \in inflight \/ e \in rendered)

\* C17: every keyword the extractor returns is lowercase, has at least 2
\* characters, is no stop word and is not purely numeric; the list has at
\* most 5 entries and no duplicates.
C17_KeywordsWellFormed ==
  pc = "return" =>
    /\ Len(ret) <= MaxKeywords
    /\ \A i \in 1..Len(ret) :
         /\ \A k \in 1..Len(ret[i]) : ~IsUpper(ret[i][k])
         /\ Len(ret[i]) >= MinWordLen
         /\ ret[i] \notin stopWords
         /\ \E k \in 1..Len(ret[i]) : ret[i][k] \notin Digits
         /\ \A j \in 1..Len(ret) : ret[j] = ret[i] => j = i

\* C17 witness: a text with upper case, punctuation, stop words, a number,
\* a one-letter word and seven distinct keywords gave five keywords.
C17_Witness ==
  /\ pc = "return"
  /\ arg = ExampleLong
  /\ Len(ret) = MaxKeywords

\* how often a word occurs among the words of a text, and where first
Frequency(word, text) ==
  Cardinality({k \in 1..Len(wordsOf(text)) : wordsOf(text)[k] = word})
FirstOccurrence(word, text) ==
  CHOOSE k \in 1..Len(wordsOf(text)) :
    wordsOf(text)[k] = word /\ \A h \in 1..(k - 1) : wordsOf(text)[h] # word

\* C18 (as claimed): for every text the result is in order of descending
\* frequency, words of equal frequency in order of first occurrence, and
\* "AI AI AI model model data" gives ai, model, data.
C18_FrequencyOrder ==
  pc = "return" =>
    /\ \A i \in 1..Len(ret), j \in 1..Len(ret) :
         i < j =>
           \/ Frequency(ret[i], arg) > Frequency(ret[j], arg)
           \/ /\ Frequency(ret[i], arg) = Frequency(ret[j], arg)
              /\ FirstOccurrence(ret[i], arg) < FirstOccurrence(ret[j], arg)
    /\ arg = ExampleFrequency =>
         ret = << <<"a", "i">>, <<"m", "o", "d", "e", "l">>,
                  <<"d", "a", "t", "a">> >>

\* C19 (as claimed): extract("is a it to of 그 이") returns the empty list.
C19_StopWordExampleEmpty ==
  (pc = "return" /\ arg = ExampleStopWords) => ret = <<>>

\* C20: with no evidence the scorer returns low when the keywords are very
\* generic, else medium when the average keyword length is at least 3 and
\* there are at least 2 keywords, else low.
C20_NoEvidenceScore ==
  (pc = "return" /\ (~arg.present \/ arg.searchResults = <<>>)) =>
    ret.score =
      IF analyzeKeywords(arg.keywords).isVeryGeneric THEN "low"
      ELSE IF /\ sumLength(arg.keywords) >= 3 * Len(arg.keywords)
              /\ Len(arg.keywords) >= 2
      THEN "medium"
      ELSE "low"

\* C20 witness: no evidence, two keywords that are not very generic with an
\* average length of at least 3: medium.
C20_Witness ==
  /\ pc = "return"
  /\ arg.searchResults = <<>>
  /\ ~analyzeKeywords(arg.keywords).isVeryGeneric
  /\ Len(arg.keywords) = 2
  /\ ret.score = "medium"

\* C21: a non-empty evidence list in which every item has isReliable false
\* gives the score low, whatever the keywords.
C21_UnreliableOnlyLow ==
  (/\ pc = "return"
   /\ arg.searchResults # <<>>
   /\ \A i \in 1..Len(arg.searchResults) :
        arg.searchResults[i].isReliable = "false")
    => ret.score = "low"

\* C21 witness: two unreliable items and keywords that would be high quality.
C21_Witness ==
  /\ pc = "return"
  /\ Len(arg.searchResults) = 2
  /\ \A i \in 1..2 : arg.searchResults[i].isReliable = "false"
  /\ analyzeKeywords(arg.keywords).isHighQuality
  /\ ret.score = "low"

\* some result of the list is reliable (isReliable is not false)
SomeReliable(searchResults) ==
  \E i \in 1..Len(searchResults) : searchResults[i].isReliable # "false"

\* C22: with at least one reliable item the score is high exactly when some
\* keyword matches the high-quality patterns, there are at least 2 keywords
\* and their average length is at least 3; it is medium otherwise, never low.
C22_ReliableHighOrMedium ==
  (pc = "return" /\ SomeReliable(arg.searchResults)) =>
    LET keywords == arg.keywords
        specific ==
          /\ \E i \in 1..Len(keywords) : matchesHighQuality(keywords[i])
          /\ Len(keywords) >= 2
          /\ sumLength(keywords) >= 3 * Len(keywords)
    IN  /\ ret.score = (IF specific THEN "high" ELSE "medium")
        /\ ret.score # "low"

\* C22 witness: a reliable item next to an unreliable one, and two keywords
\* of average length 3 of which one matches a pattern: high, one item cited.
C22_Witness ==
  /\ pc = "return"
  /\ Len(arg.searchResults) = 2
  /\ arg.searchResults[1].isReliable = "false"
  /\ arg.searchResults[2].isReliable = "undefined"
  /\ Len(arg.keywords) = 2
  /\ sumLength(arg.keywords) = 6
  /\ ret.score = "high"
  /\ ret.n = 1

\* C23: an evidence list that is present but empty gives medium with the
\* reason of the default return ("needs further confirmation"), whatever
\* the keywords.
C23_EmptyEvidenceDefault ==
  (pc = "return" /\ arg.present /\ arg.searchResults = <<>>) =>
    (ret.score = "medium" /\ ret.reason = "default")

\* low < medium < high
Ordinal(score) ==
  IF score = "low" THEN 0 ELSE IF score = "medium" THEN 1 ELSE 2

\* C24: for every keyword list the score for one reliable item is not lower
\* than the score for the empty evidence list.
C24_Monotone ==
  (/\ pc = "return"
   /\ Len(arg.searchResults) = 1
   /\ arg.searchResults[1].isReliable # "false")
    => Ordinal(ret.score)
         >= Ordinal(calculateTrustScore(TRUE, <<>>, arg.keywords).score)

\* C24 witness: keywords that score medium on the empty list and medium
\* with one reliable item.
C24_Witness ==
  /\ pc = "return"
  /\ Len(arg.searchResults) = 1
  /\ arg.searchResults[1].isReliable = "true"
  /\ calculateTrustScore(TRUE, <<>>, arg.keywords).score = "medium"
  /\ ret.score = "medium"

\* C25: an evidence list made only of items whose url is the sentinel "#"
\* never gives a high verdict nor a positive count in the reason.
C25_SentinelNotCounted ==
  (/\ pc = "return"
   /\ arg.searchResults # <<>>
   /\ \A i \in 1..Len(arg.searchResults) : arg.searchResults[i].url = "#")
    => (ret.score # "high" /\ ret.n = 0)

\* C26: the heuristic source returns the empty list when there is no keyword
\* or every keyword has length at most 1, whatever the classification.
C26_GuardReturnsEmpty ==
  (/\ pc = "searched"
   /\ \A i \in 1..Len(arg.keywords) : Len(arg.keywords[i]) <= 1)
    => ret.searchResults = <<>>

\* C26 witness: one-letter keywords that the factual table would classify.
C26_Witness ==
  /\ pc = "searched"
  /\ Len(arg.keywords) = 2
  /\ \A i \in 1..2 : Len(arg.keywords[i]) = 1
  /\ hasFactualKeywords(arg.keywords)
  /\ ret.searchResults = <<>>

\* the keywords pass the guard: there is one, and not all have length <= 1
PassesGuard(keywords) ==
  /\ keywords # <<>>
  /\ \E i \in 1..Len(keywords) : Len(keywords[i]) > 1

\* average length > 4 and at least 3 keywords
Complex(keywords) ==
  Len(keywords) >= 3 /\ sumLength(keywords) > 4 * Len(keywords)

\* C27: for keywords that pass the guard the heuristic source returns 1 or 2
\* items, all reliable, when they are factual or complex; exactly one item
\* with isReliable false when they are subjective and neither; nothing when
\* no class applies; never more than 2 items.
C27_HeuristicClasses ==
  (pc = "searched" /\ PassesGuard(arg.keywords)) =>
    LET keywords == arg.keywords
        results == ret.searchResults
    IN  /\ Len(results) <= 2
        /\ IF hasFactualKeywords(keywords) \/ Complex(keywords)
           THEN /\ Len(results) \in {1, 2}
                /\ \A i \in 1..Len(results) : results[i].isReliable = "true"
           ELSE IF hasSubjectiveKeywords(keywords)
           THEN /\ Len(results) = 1
                /\ results[1].isReliable = "false"
           ELSE results = <<>>

\* C27 witness: three long keywords outside both tables give two reliable
\* items.
C27_Witness ==
  /\ pc = "searched"
  /\ Len(arg.keywords) = 3
  /\ ~hasFactualKeywords(arg.keywords)
  /\ ~hasSubjectiveKeywords(arg.keywords)
  /\ Len(ret.searchResults) = 2
  /\ \A i \in 1..2 : ret.searchResults[i].isReliable = "true"

\* C28: neural, network, algorithm give 1 or 2 reliable items and the score
\* high with the color #51cf66.
C28_FactualExampleHigh ==
  (pc = "return" /\ arg.keywords = ExampleFactual) =>
    /\ Len(ret.searchResults) \in {1, 2}
    /\ \A i \in 1..Len(ret.searchResults) :
         ret.searchResults[i].isReliable = "true"
    /\ ret.trustInfo.score = "high"
    /\ ret.trustInfo.color = "#51cf66"

\* C28 witness: the example has been searched and scored.
C28_Witness ==
  /\ pc = "return"
  /\ arg.keywords = ExampleFactual
  /\ Len(ret.searchResults) = 2
  /\ ret.trustInfo.score = "high"

\* C29: the two subjective Hangul keywords give exactly one item, with
\* isReliable false, and the score low.
C29_SubjectiveExampleLow ==
  (pc = "return" /\ arg.keywords = ExampleSubjective) =>
    /\ Len(ret.searchResults) = 1
    /\ ret.searchResults[1].isReliable = "false"
    /\ ret.trustInfo.score = "low"

\* C29 witness: the example has been searched and scored as subjective.
C29_Witness ==
  /\ pc = "return"
  /\ arg.keywords = ExampleSubjective
  /\ ret.searchResults = <<Result("false", "#")>>
  /\ ret.trustInfo.reason = "subjective"

\* C30: the live-lookup source returns at most 2 items, whichever of the
\* abstract, the related topics and the direct answer the response holds.
C30_LiveAtMostTwo ==
  pc \in {"background", "live"} => Len(ret.results) <= 2

\* the first source yields an item: the response arrived and holds an
\* abstract, a direct answer, or a usable topic among the first two
FirstSourceYields(data) ==
  /\ data.ok
  /\ \/ data.Abstract = "text"
     \/ data.Answer = "text"
     \/ \E i \in 1..Len(data.RelatedTopics) :
          i <= 2 /\ data.RelatedTopics[i].Text /\ data.RelatedTopics[i].FirstURL

\* the elements of a sequence
Range(s) == {s[i] : i \in 1..Len(s)}

\* C31: the secondary source is queried exactly when the first yielded no
\* item; a failure of the first source counts as no item, and the secondary
\* source's results are then what the lookup returns.
C31_SecondaryIffFirstEmpty ==
  pc = "background" =>
    /\ "wikipedia" \in Range(ret.queried) <=> ~FirstSourceYields(arg.data)
    /\ ~FirstSourceYields(arg.data) => ret.results = searchWikipedia(arg.wiki)

\* C31 witness: the first source fails, the secondary source is queried and
\* its two items are returned.
C31_Witness ==
  /\ pc = "background"
  /\ ~arg.data.ok
  /\ arg.data.Abstract = "text"
  /\ ret.queried = <<"duckduckgo", "wikipedia">>
  /\ Len(ret.results) = 2

ElementAdded(batch) ==
  \E i \in 1..Len(batch) : \E j \in 1..Len(batch[i].addedNodes) :
    batch[i].addedNodes[j] = "element"

\* C33: the callback schedules a debounced pass exactly when the batch adds
\* an element node; text-node additions, removals and character-data
\* changes schedule nothing; and the callback itself submits no element.
C33_ElementAddedSchedules ==
  [][(pc = "call" /\ pc' = "notified") =>
       /\ ElementAdded(arg.batch) =>
            (DebounceTicks \in timers' /\ sinceNotify' = 0 /\ calls' > 0)
       /\ ~ElementAdded(arg.batch) => debVars' = debVars
       /\ processed' = processed
       /\ started' = started
       /\ inflight' = inflight]_vars

\* C33 witness: a batch with a removal, a text node and an element node has
\* been delivered; the timeout is scheduled and the response element in the
\* page is still not submitted.
C33_Witness ==
  /\ pc = "notified"
  /\ Len(arg.batch) = 2
  /\ arg.batch[1].removedNodes
  /\ arg.batch[2].addedNodes = <<"text", "element">>
  /\ timers = {DebounceTicks}
  /\ calls = 1
  /\ started[1] = 0

\* C34: at most one mutation subscription is active at every moment, and it
\* is the one this.observer holds, for every sequence of initialization and
\* enable/disable directives.
C34_AtMostOneSubscription ==
  /\ active <= 1
  /\ active = 1 <=> observer = "connected"

\* C34 witness: on a supported platform an overlay was removed by a disable
\* and the watcher observes again after a later enable, with one observer.
C34_Witness ==
  /\ platform = "chatgpt"
  /\ rendered \ overlays # {}
  /\ observer = "connected"
  /\ stored
  /\ pendingSet = <<>>
  /\ active = 1

\* C35: on a supported platform, when no init or setEnabled call is
\* suspended at a settings-store await, the flag the status directive
\* reports agrees with the subscription (observer connected iff isEnabled)
\* and with the persisted "enabled" value.
C35_StatusAgrees ==
  (platform # "none" /\ initPc = "done" /\ pendingSet = <<>>) =>
    /\ observer = "connected" <=> isEnabled
    /\ isEnabled = stored

\* the watcher is on and at rest on a supported platform
EnabledAtRest ==
  /\ platform # "none"
  /\ initPc = "done"
  /\ pendingSet = <<>>
  /\ isEnabled
  /\ stored
  /\ observer = "connected"

\* C36: while the watcher is enabled on a supported platform, every element
\* that discovery returns is eventually submitted, even if no notification
\* is delivered for it, whether init or a later enable turned the watcher on.
C36_EventuallySubmitted ==
  \A e \in Elems :
    (EnabledAtRest /\ e \in Discovered)
      ~> (e \in processed \/ ~EnabledAtRest \/ e \notin Discovered)

\* the run of e ended at one of the early returns: e was submitted, awaits
\* no lookup, and its run neither rendered an overlay nor threw
EndedEarly(e) ==
  /\ started[e] > 0
  /\ e \notin inflight
  /\ e \notin rendered
  /\ e \notin failed

\* C37: an element submitted while its extracted text is under 50 characters
\* or yields no keyword has no overlay, is in ProcessedSet, and is not
\* submitted again, even after its text has grown.
C37_EarlyReturnIsFinal ==
  \A e \in Elems :
    EndedEarly(e) =>
      (e \in processed /\ e \notin overlays /\ started[e] = 1)

\* C37 witness: an element ended early, its text has grown to a scorable
\* one since, and a pass has run over the grown page without submitting it.
C37_Witness ==
  \E e \in 1..Len(dom) :
    /\ EndedEarly(e)
    /\ ReachesLookup(e)
    /\ e \in Discovered
    /\ ~dirty
    /\ lastPass = {}

====
